---------------------------- MODULE Spec2Model ----------------------------
(***************************************************************************)
(* A model of Fluke289.py: the command/response exchange (_command and the *)
(* context manager __enter__/__exit__ it runs under), the byte decoders    *)
(* (_read_u16, _read_i16, _read_double), the vocabulary cache (_map,       *)
(* _map.json, QEMAP, _map_check, the rebuild of __init__) with the setters *)
(* and lookups that use it, the chunked transfer of QLCDBM, and the record *)
(* queries QDDA, QDDB, QRSI, QSLS and QSMR with the Reading and RangeData  *)
(* they build and the setter of custom_decibel_meter_reference.            *)
(*                                                                         *)
(* The vocabulary names are cut down to two of the 56 of _map_keys, UNIT   *)
(* and BEEPER, in their declared order; the record queries run with the    *)
(* nine names their parsers look codes up under.  Assertions are on, as    *)
(* they are unless the interpreter is started with -O.                     *)
(*                                                                         *)
(* Byte strings are sequences of integers 0..255, Python strings are       *)
(* sequences of code points.  Python indices are 0-based; At(s, i) reads   *)
(* the element Python calls s[i].                                          *)
(***************************************************************************)
EXTENDS Integers, Sequences, FiniteSets, TLC

VARIABLES
    device,     \* self._device: 0 is None, otherwise the id of a Serial object
    isOpen,     \* Serial.is_open of every Serial object
    pc,         \* each caller's position in _command
    cmd,        \* the cmd argument
    slp,        \* the sleep_time argument: "None", "positive" or "negative"
    frame,      \* cmd after it was terminated and encoded
    sent,       \* the bytes the caller's write put on the wire
    dev,        \* the Serial object "with self as dev" bound (0: none)
    resp,       \* the response read
    exc,        \* the exception raised inside the with block ("" for none)
    result,     \* how the call ended
    log,        \* the transport events of the current call, in order
    buf,        \* input_bytes of a byte decoder call
    offset,     \* offset of a byte decoder call
    fn,         \* the byte decoder applied ("" before the call)
    out,        \* what the byte decoder call produced
    _map,       \* Fluke289._map, the vocabulary cache (a class attribute)
    map_json,   \* the file _map.json
    op,         \* the operation of the session in progress, or the last one
    written,    \* history: the dict the last write_json was given
    alive       \* a session object exists: an __init__ has returned

vars == <<device, isOpen, pc, cmd, slp, frame, dev,
          sent, resp, exc, result, log, buf, offset, fn, out,
          _map, map_json, op, written, alive>>

sessionVars == <<device, isOpen, pc, cmd, slp,
                 frame, dev, sent, resp, exc, result, log>>

decoderVars == <<buf, offset, fn, out>>

opVars == <<_map, map_json, op, written, alive>>

opVarsKept == <<_map, map_json, written, alive>>

-----------------------------------------------------------------------------
(* Bounds of the model. *)

MaxCmdLen == 2          \* characters (or bytes) of a command
MaxPayloadLen == 4      \* bytes of a response after its status byte
MaxBufLen == 3          \* bytes of a buffer handed to a byte decoder
MaxRampLen == 11        \* bytes of a buffer long enough to hold a double

-----------------------------------------------------------------------------
(* Bytes and characters the code names. *)

CR == 13                \* "\r"
Hash == 35              \* "#"
Digit0 == 48            \* "0"
Digit1 == 49            \* "1"
Digit2 == 50            \* "2"
Digit5 == 53            \* "5"

\* The sequences over S of length at most n.
SeqsUpTo(S, n) == UNION {[1..k -> S] : k \in 0..n}

\* The code points of the modelled commands: "\r", "A", U+00E9 (two bytes in
\* UTF-8) and the lone surrogate U+D800 (which Python cannot encode).
CodePoints == {CR, 65, 233, 55296}

\* The bytes of the modelled bytes commands: "\r", "A", and the UTF-8
\* encoding 0xC3 0xA9 of U+00E9.
CmdBytes == {CR, 65, 195, 169}

\* First bytes of the modelled responses: the four statuses the code names,
\* "9", "A", "\r", "#" and the non-ASCII byte 0xFF.
StatusBytes == {Digit0, Digit1, Digit2, Digit5, 57, 65, CR, Hash, 255}

\* Bytes after the first byte of the modelled responses.
PayloadBytes == {CR, Hash, Digit0, 65}

\* Byte values of the modelled decoder buffers.
ByteVals == {0, 1, 127, 128, 255}

Commands ==
    {[kind |-> "str", data |-> s] : s \in SeqsUpTo(CodePoints, MaxCmdLen)}
    \cup {[kind |-> "bytes", data |-> b] : b \in SeqsUpTo(CmdBytes, MaxCmdLen)}
    \cup {[kind |-> "other", data |-> <<>>]}

Responses ==
    {<<>>} \cup {<<s>> \o p : s \in StatusBytes,
                              p \in SeqsUpTo(PayloadBytes, MaxPayloadLen)}

\* The inputs of the two-caller specification: one command of each form and
\* one response of each status class.
FewCommands == {[kind |-> "str", data |-> <<65>>],
                [kind |-> "bytes", data |-> <<65, CR>>]}

FewResponses == {<<>>, <<Digit0, 65, CR>>, <<Digit1, CR>>, <<57, CR>>}

Threads == {1, 2}

\* The sleep_time argument: absent, a wait time.sleep accepts, or a negative
\* one, on which time.sleep raises ValueError.
SleepTimes == {"None", "positive", "negative"}

-----------------------------------------------------------------------------
(* Python's bytes and str operations the code uses. *)

endswith(s, suffix) ==
    /\ Len(s) >= Len(suffix)
    /\ SubSeq(s, Len(s) - Len(suffix) + 1, Len(s)) = suffix

startswith(s, prefix) ==
    /\ Len(s) >= Len(prefix)
    /\ SubSeq(s, 1, Len(prefix)) = prefix

\* A variant of removeprefix that leaves a string equal to the prefix alone.
removeprefix_strict(s, prefix) ==
    IF Len(s) > Len(prefix) /\ startswith(s, prefix)
    THEN SubSeq(s, Len(prefix) + 1, Len(s))
    ELSE s

removeprefix(s, prefix) ==
    IF startswith(s, prefix) THEN SubSeq(s, Len(prefix) + 1, Len(s)) ELSE s

\* A variant of removesuffix that removes every trailing copy (as rstrip does).
removesuffix_all(s, suffix) ==
    LET RECURSIVE strip(_)
        strip(x) == IF Len(suffix) > 0 /\ endswith(x, suffix)
                    THEN strip(SubSeq(x, 1, Len(x) - Len(suffix)))
                    ELSE x
    IN strip(s)

removesuffix(s, suffix) ==
    IF endswith(s, suffix) THEN SubSeq(s, 1, Len(s) - Len(suffix)) ELSE s

\* The UTF-8 encoding of one code point; <<>> stands for "cannot be encoded"
\* (a surrogate).
Utf8Char(c) ==
    IF c < 128 THEN <<c>>
    ELSE IF c < 2048 THEN <<192 + (c \div 64), 128 + (c % 64)>>
    ELSE IF c >= 55296 /\ c <= 57343 THEN <<>>
    ELSE IF c < 65536
         THEN <<224 + (c \div 4096), 128 + ((c \div 64) % 64), 128 + (c % 64)>>
    ELSE <<240 + (c \div 262144), 128 + ((c \div 4096) % 64),
           128 + ((c \div 64) % 64), 128 + (c % 64)>>

RECURSIVE Utf8(_)
Utf8(s) == IF s = <<>> THEN <<>> ELSE Utf8Char(Head(s)) \o Utf8(Tail(s))

\* str.encode() raises UnicodeEncodeError on a surrogate.
Encodable(s) == \A i \in 1..Len(s) : Utf8Char(s[i]) # <<>>

\* bytes.decode() of the slice response[0:1]: the empty string for an empty
\* response, the character for an ASCII byte; it raises UnicodeDecodeError on
\* a byte above 0x7F, which alone is never valid UTF-8.
FirstByte(response) == SubSeq(response, 1, IF Len(response) >= 1 THEN 1 ELSE 0)

Decodable(b) == \A i \in 1..Len(b) : b[i] < 128

-----------------------------------------------------------------------------
(* How a call ends. *)

Returned(payload) == [kind |-> "return", exc |-> "", msg |-> "", payload |-> payload]

Raised(e, m) == [kind |-> "raise", exc |-> e, msg |-> m, payload |-> <<>>]

NoResult == [kind |-> "", exc |-> "", msg |-> "", payload |-> <<>>]

-----------------------------------------------------------------------------
(* _command, lines 1415-1435: the command is terminated and encoded. *)

\* A variant of EncodeCommand without the endswith tests.
EncodeCommandAlways(c) ==
    IF c.kind = "bytes" THEN Returned(c.data \o <<CR>>)
    ELSE IF c.kind = "str"
         THEN IF Encodable(c.data) THEN Returned(Utf8(c.data \o <<CR>>))
              ELSE Raised("UnicodeEncodeError", "surrogates not allowed")
    ELSE Raised("ValueError", "Command should passed as a string!")

EncodeCommand(c) ==
    IF c.kind = "bytes"
    THEN Returned(IF endswith(c.data, <<CR>>) THEN c.data ELSE c.data \o <<CR>>)
    ELSE IF c.kind = "str"
         THEN LET s == IF endswith(c.data, <<CR>>) THEN c.data
                       ELSE c.data \o <<CR>>
              IN IF Encodable(s) THEN Returned(Utf8(s))
                 ELSE Raised("UnicodeEncodeError", "surrogates not allowed")
    ELSE Raised("ValueError", "Command should passed as a string!")

(* _command, lines 1449-1471: the response is classified and stripped. *)

\* The match statement on the decoded first character: the message of the
\* IOError raised, "" for case '0'.
\* A variant of StatusError that lets an empty response pass as case '0'.
StatusErrorEmptyOk(ch) ==
    IF ch = <<>> \/ ch = <<Digit0>> THEN ""
    ELSE IF ch = <<Digit1>> THEN "Syntax Error."
    ELSE IF ch = <<Digit2>> THEN "Execution error."
    ELSE IF ch = <<Digit5>> THEN "No data available."
    ELSE "Invalid Response."

StatusError(ch) ==
    IF ch = <<Digit0>> THEN ""
    ELSE IF ch = <<Digit1>> THEN "Syntax Error."
    ELSE IF ch = <<Digit2>> THEN "Execution error."
    ELSE IF ch = <<Digit5>> THEN "No data available."
    ELSE "Invalid Response."

\* Lines 1467-1469.
StripPayload(r) ==
    removeprefix(removesuffix(removeprefix(r, <<CR>>), <<CR>>), <<Hash, Digit0>>)

DecodeResponse(response) ==
    LET first == FirstByte(response)
    IN IF ~Decodable(first)
       THEN Raised("UnicodeDecodeError", "invalid start byte")
       ELSE IF StatusError(first) = ""
            THEN Returned(StripPayload(SubSeq(response, 2, Len(response))))
            ELSE Raised("IOError", StatusError(first))

\* A variant of EndOfCall that starts the exchange again after a failure.
RetryOnFailure(res) == IF res.kind = "raise" THEN "enter" ELSE "done"

\* A raise or a return ends the call: where the caller goes after it.
EndOfCall(res) == "done"

-----------------------------------------------------------------------------
(* The byte decoders, lines 1554-1569. *)

SignBit == 32768        \* 0x8000
Top16 == 65536          \* 0x10000

Value(v) == [kind |-> "return", exc |-> "", val |-> v]

Error(e) == [kind |-> "raise", exc |-> e, val |-> 0]

NoOut == [kind |-> "", exc |-> "", val |-> 0]

\* The element Python calls s[i], i >= 0.
At(s, i) == s[i + 1]

\* Python's rule for a bound i of a slice of step -1 over n elements.
ClampDown(i, n) ==
    IF i < 0 THEN (IF i + n < 0 THEN -1 ELSE i + n)
    ELSE IF i >= n THEN n - 1
    ELSE i

\* The elements first, first - 1, ..., last + 1 of s (indices from 0).
Downward(s, first, last) ==
    IF first > last THEN [k \in 1..(first - last) |-> At(s, first - (k - 1))]
    ELSE <<>>

\* s[start:stop:-1]
SliceDownTo(s, start, stop) ==
    Downward(s, ClampDown(start, Len(s)), ClampDown(stop, Len(s)))

\* s[start::-1]
SliceDown(s, start) == Downward(s, ClampDown(start, Len(s)), -1)

\* A variant of unpack_H that takes what bytes there are, as
\* int.from_bytes(b, 'big') does.
unpack_H_any(b) ==
    Value(IF Len(b) = 0 THEN 0
          ELSE IF Len(b) = 1 THEN b[1]
          ELSE 256 * b[1] + b[2])

\* unpack('!H', b)[0]: a big-endian unsigned 16-bit integer of exactly two
\* bytes.
unpack_H(b) ==
    IF Len(b) = 2 THEN Value(256 * b[1] + b[2]) ELSE Error("struct.error")

\* A variant of _read_u16 without the branch for offset 0.
_read_u16_one_rule(input_bytes, off) ==
    unpack_H(SliceDownTo(input_bytes, off + 1, off - 1))

_read_u16(input_bytes, off) ==
    unpack_H(IF off > 0 THEN SliceDownTo(input_bytes, off + 1, off - 1)
             ELSE SliceDown(input_bytes, off + 1))

\* A variant of _read_i16 that compares with 0x8000 instead of testing bit 15.
_read_i16_above(input_bytes, off) ==
    LET u == _read_u16(input_bytes, off)
    IN IF u.kind = "raise" THEN u
       ELSE IF u.val > SignBit THEN Value(-(Top16 - u.val))
       ELSE u

\* val & 0x8000 is not zero exactly when bit 15 of val is set.
_read_i16(input_bytes, off) ==
    LET u == _read_u16(input_bytes, off)
    IN IF u.kind = "raise" THEN u
       ELSE IF (u.val \div SignBit) % 2 # 0 THEN Value(-(Top16 - u.val))
       ELSE u

(* _read_double, lines 1541-1551.  unpack('!d', b) and round(x, 8) are the   *)
(* library's: the model keeps the double as the eight bytes handed to       *)
(* unpack, first byte first, and says nothing about its numeric value.      *)

\* unpack('!d', b)[0], then round(..., 8): exactly eight bytes are accepted.
unpack_d(b) ==
    IF Len(b) = 8 THEN Value(b) ELSE Error("struct.error")

\* A variant of _read_double that reverses the eight bytes as one group.
_read_double_reversed(input_bytes, off) ==
    unpack_d(IF off > 0 THEN SliceDownTo(input_bytes, off + 7, off - 1)
             ELSE SliceDown(input_bytes, off + 7))

_read_double(input_bytes, off) ==
    LET endian_l == IF off > 0 THEN SliceDownTo(input_bytes, off + 3, off - 1)
                    ELSE SliceDown(input_bytes, off + 3)
        endian_h == SliceDownTo(input_bytes, off + 7, off + 3)
    IN unpack_d(endian_l \o endian_h)

-----------------------------------------------------------------------------
(* Text.  A text (a Python str) is a sequence of code points; Txt spells   *)
(* one out of the characters below.                                        *)

Upper == <<"A", "B", "C", "D", "E", "F", "G", "H", "I", "J", "K", "L", "M",
           "N", "O", "P", "Q", "R", "S", "T", "U", "V", "W", "X", "Y", "Z">>

Lower == <<"a", "b", "c", "d", "e", "f", "g", "h", "i", "j", "k", "l", "m",
           "n", "o", "p", "q", "r", "s", "t", "u", "v", "w", "x", "y", "z">>

Numerals == <<"0", "1", "2", "3", "4", "5", "6", "7", "8", "9">>

Comma == 44             \* ","

\* The code point of a character.
Ord(c) ==
    IF \E i \in 1..26 : Upper[i] = c
    THEN 64 + (CHOOSE i \in 1..26 : Upper[i] = c)
    ELSE IF \E i \in 1..26 : Lower[i] = c
    THEN 96 + (CHOOSE i \in 1..26 : Lower[i] = c)
    ELSE IF \E i \in 1..10 : Numerals[i] = c
    THEN 47 + (CHOOSE i \in 1..10 : Numerals[i] = c)
    ELSE IF c = " " THEN 32
    ELSE IF c = "," THEN Comma
    ELSE IF c = "-" THEN 45
    ELSE IF c = "+" THEN 43
    ELSE IF c = "." THEN 46
    ELSE IF c = "_" THEN 95
    ELSE IF c = "#" THEN Hash
    ELSE 63

Txt(s) == [i \in 1..Len(s) |-> Ord(s[i])]

-----------------------------------------------------------------------------
(* Python's str, int, dict and json operations the vocabulary code uses. *)

\* bytes.decode(): strict UTF-8.  Utf8Len is the length of the well-formed
\* sequence at the head of b, 0 if there is none.
Utf8Cont(x) == x >= 128 /\ x <= 191

Utf8Len(b) ==
    IF b[1] < 128 THEN 1
    ELSE IF /\ b[1] >= 194 /\ b[1] <= 223
            /\ Len(b) >= 2 /\ Utf8Cont(b[2])
    THEN 2
    ELSE IF /\ b[1] >= 224 /\ b[1] <= 239
            /\ Len(b) >= 3 /\ Utf8Cont(b[2]) /\ Utf8Cont(b[3])
            /\ (b[1] = 224 => b[2] >= 160)
            /\ (b[1] = 237 => b[2] <= 159)
    THEN 3
    ELSE IF /\ b[1] >= 240 /\ b[1] <= 244
            /\ Len(b) >= 4 /\ Utf8Cont(b[2]) /\ Utf8Cont(b[3]) /\ Utf8Cont(b[4])
            /\ (b[1] = 240 => b[2] >= 144)
            /\ (b[1] = 244 => b[2] <= 143)
    THEN 4
    ELSE 0

Utf8Point(b, n) ==
    IF n = 1 THEN b[1]
    ELSE IF n = 2 THEN (b[1] - 192) * 64 + (b[2] - 128)
    ELSE IF n = 3
    THEN (b[1] - 224) * 4096 + (b[2] - 128) * 64 + (b[3] - 128)
    ELSE (b[1] - 240) * 262144 + (b[2] - 128) * 4096
         + (b[3] - 128) * 64 + (b[4] - 128)

RECURSIVE Utf8Valid(_)
Utf8Valid(b) ==
    \/ b = <<>>
    \/ /\ Utf8Len(b) > 0
       /\ Utf8Valid(SubSeq(b, Utf8Len(b) + 1, Len(b)))

RECURSIVE Utf8Text(_)
Utf8Text(b) ==
    IF b = <<>> THEN <<>>
    ELSE <<Utf8Point(b, Utf8Len(b))>>
         \o Utf8Text(SubSeq(b, Utf8Len(b) + 1, Len(b)))

decode(b) ==
    IF Utf8Valid(b) THEN Returned(Utf8Text(b))
    ELSE Raised("UnicodeDecodeError", "invalid start byte")

\* s.split(sep), sep one character: the fields between the separators.
RECURSIVE split(_, _)
split(s, sep) ==
    IF \A i \in 1..Len(s) : s[i] # sep THEN <<s>>
    ELSE LET i == CHOOSE i \in 1..Len(s) :
                      s[i] = sep /\ \A j \in 1..(i - 1) : s[j] # sep
         IN <<SubSeq(s, 1, i - 1)>> \o split(SubSeq(s, i + 1, Len(s)), sep)

\* The ASCII characters int() and float() take for white space around the
\* number: tab, line feed, vertical tab, form feed, carriage return, space.
\* The separators 28..31, which str.strip() removes, are not among them.
Whitespace == {9, 10, 11, 12, 13, 32}

RECURSIVE lstrip(_)
lstrip(s) ==
    IF s # <<>> /\ Head(s) \in Whitespace THEN lstrip(Tail(s)) ELSE s

RECURSIVE rstrip(_)
rstrip(s) ==
    IF s # <<>> /\ s[Len(s)] \in Whitespace
    THEN rstrip(SubSeq(s, 1, Len(s) - 1))
    ELSE s

IsDigit(c) == c >= 48 /\ c <= 57

RECURSIVE DecimalValue(_)
DecimalValue(d) ==
    IF d = <<>> THEN 0
    ELSE 10 * DecimalValue(SubSeq(d, 1, Len(d) - 1)) + (d[Len(d)] - 48)

\* int(s) of a text of ASCII characters: white space around, a sign, then
\* decimal digits, single underscores allowed between two digits.
int(s) ==
    LET x == rstrip(lstrip(s))
        signed == x # <<>> /\ x[1] \in {43, 45}
        d == IF signed THEN Tail(x) ELSE x
        wellformed ==
            /\ d # <<>>
            /\ \A i \in 1..Len(d) : IsDigit(d[i]) \/ d[i] = 95
            /\ IsDigit(d[1]) /\ IsDigit(d[Len(d)])
            /\ \A i \in 1..(Len(d) - 1) : ~(d[i] = 95 /\ d[i + 1] = 95)
        n == DecimalValue(SelectSeq(d, IsDigit))
    IN IF wellformed
       THEN Returned(IF signed /\ x[1] = 45 THEN -n ELSE n)
       ELSE Raised("ValueError", "invalid literal for int() with base 10")

\* str(n) of an integer.
RECURSIVE DecimalText(_)
DecimalText(n) ==
    IF n < 10 THEN <<48 + n>>
    ELSE DecimalText(n \div 10) \o <<48 + (n % 10)>>

str(n) == IF n < 0 THEN <<45>> \o DecimalText(-n) ELSE DecimalText(n)

\* A dict is the sequence of its items <<key, value>> in insertion order, the
\* keys distinct.  The keys of a table are integers or texts, and an integer
\* is never equal to a text: the key n is kept as <<n>> under the tag "int".
IntKey(n) == [t |-> "int", v |-> <<n>>]

StrKey(s) == [t |-> "str", v |-> s]

DictHas(d, k) == \E i \in 1..Len(d) : d[i][1] = k

DictGet(d, k) == d[CHOOSE i \in 1..Len(d) : d[i][1] = k][2]

\* A variant of DictSet that keeps the value of a key the dict holds already
\* (as dict.setdefault does).
DictSetDefault(d, k, v) ==
    IF DictHas(d, k) THEN d ELSE Append(d, <<k, v>>)

\* d[k] = v
DictSet(d, k, v) ==
    IF DictHas(d, k)
    THEN [i \in 1..Len(d) |-> IF d[i][1] = k THEN <<k, v>> ELSE d[i]]
    ELSE Append(d, <<k, v>>)

values(d) == [i \in 1..Len(d) |-> d[i][2]]

Items(d) == {d[i] : i \in 1..Len(d)}

\* json.dump writes an object: the members in the order of the dict, each
\* key as a text, an integer key n as str(n).
KeyText(k) == IF k.t = "int" THEN str(k.v[1]) ELSE k.v

write_json(map) ==
    [i \in 1..Len(map) |->
        <<map[i][1],
          [j \in 1..Len(map[i][2]) |->
              <<KeyText(map[i][2][j][1]), map[i][2][j][2]>>]>>]

\* json.load reads an object as a dict whose keys are texts; of two members
\* with one key the later value stays.
RECURSIVE FromMembers(_)
FromMembers(m) ==
    IF m = <<>> THEN <<>>
    ELSE DictSet(FromMembers(SubSeq(m, 1, Len(m) - 1)),
                 StrKey(m[Len(m)][1]), m[Len(m)][2])

\* Line 66: the object of the file read as the dict of the names, each
\* table read as a dict.  Of two members with one name the later table
\* stays, at the place of the first.
RECURSIVE load_json(_)
load_json(doc) ==
    IF doc = <<>> THEN <<>>
    ELSE DictSet(load_json(SubSeq(doc, 1, Len(doc) - 1)),
                 doc[Len(doc)][1], FromMembers(doc[Len(doc)][2]))

-----------------------------------------------------------------------------
(* The vocabulary: QEMAP (lines 1321-1337) and _map_check (1365-1382). *)

\* Lines 1327-1332: the dict built from rest, the fields after the
\* count (the list out after out.pop(0)).
RECURSIVE Submap(_, _)
Submap(rest, n) ==
    IF n = 0 THEN <<>>
    ELSE DictSet(Submap(rest, n - 1),
                 IntKey(int(rest[2 * n - 1]).payload), rest[2 * n])

\* Lines 1321-1337 on the text query() returned: the submap, or the error.
ParseEMAP(text) ==
    LET fields == split(text, Comma)
        submap_length == int(Head(fields))
        rest == Tail(fields)
    IN IF submap_length.kind = "raise" THEN submap_length
       ELSE IF Len(rest) # submap_length.payload * 2
       THEN Raised("ValueError", "Error parsing QEMAP")
       ELSE IF \E i \in 1..submap_length.payload :
                   int(rest[2 * i - 1]).kind = "raise"
       THEN Raised("ValueError", "invalid literal for int() with base 10")
       ELSE Returned(Submap(rest, submap_length.payload))

\* query() then QEMAP on the outcome of _command.
ParseReply(res) ==
    IF res.kind = "raise" THEN res
    ELSE IF decode(res.payload).kind = "raise" THEN decode(res.payload)
    ELSE ParseEMAP(decode(res.payload).payload)

\* The ValueError of _map_check: vv_1[:-1] and vv_2[-1], the labels listed.
Rejected(valid_vals) ==
    [kind |-> "raise", exc |-> "ValueError",
     msg |-> "Error setting multimeter property",
     payload |-> SubSeq(valid_vals, 1, Len(valid_vals) - 1)
                 \o <<valid_vals[Len(valid_vals)]>>]

_map_check(map, val, submap) ==
    IF ~DictHas(map, submap) THEN Raised("KeyError", "")
    ELSE LET valid_vals == values(DictGet(map, submap))
         IN IF \E i \in 1..Len(valid_vals) : valid_vals[i] = val
            THEN Returned(<<>>)
            ELSE IF valid_vals = <<>>
            THEN Raised("IndexError", "list index out of range")
            ELSE Rejected(valid_vals)

\* self._map[key][str(code)], the lookup of the binary record parsers
\* (lines 978-980, 1094-1095, 1146-1147, 1528-1535).
Resolve(map, key, code) ==
    IF ~DictHas(map, key) THEN Raised("KeyError", "")
    ELSE IF ~DictHas(DictGet(map, key), StrKey(str(code)))
    THEN Raised("KeyError", "")
    ELSE Returned(DictGet(DictGet(map, key), StrKey(str(code))))

-----------------------------------------------------------------------------
(* The exchange: _command under "with self as dev", one action per step.   *)
(* A Serial object is an index of isOpen; every Serial object is opened on *)
(* the same port.  The transport is external: constructing, opening,       *)
(* writing and reading may each fail (ok = FALSE) with a SerialException;  *)
(* Serial.close() closes.                                                  *)

Finish(t, res) ==
    /\ result' = [result EXCEPT ![t] = res]
    /\ pc' = [pc EXCEPT ![t] = EndOfCall(res)]

Logged(t, ev) == log' = [log EXCEPT ![t] = Append(@, ev)]

\* _command is called: lines 1415-1435 run on the caller's own data.
Call(t, commands) ==
    /\ pc[t] = "idle"
    /\ \E c \in commands, s \in SleepTimes :
          LET enc == EncodeCommand(c)
          IN /\ cmd' = [cmd EXCEPT ![t] = c]
             /\ slp' = [slp EXCEPT ![t] = s]
             /\ IF enc.kind = "raise"
                THEN /\ Finish(t, enc)
                     /\ UNCHANGED frame
                ELSE /\ frame' = [frame EXCEPT ![t] = enc.payload]
                     /\ pc' = [pc EXCEPT ![t] = "enter"]
                     /\ UNCHANGED result
    /\ UNCHANGED <<device, isOpen, dev, sent, resp,
                   exc, log, decoderVars, opVars>>

\* __enter__, line 133: the test of self._device.
EnterTest(t) ==
    /\ pc[t] = "enter"
    /\ pc' = [pc EXCEPT ![t] = IF device = 0 THEN "create" ELSE "open"]
    /\ UNCHANGED <<device, isOpen, cmd, slp, frame,
                   dev, sent, resp, exc, result, log, decoderVars, opVars>>

\* __enter__, line 135: Serial(port, ...) constructs and opens a new object.
EnterCreate(t) ==
    /\ pc[t] = "create"
    /\ \E ok \in BOOLEAN :
          IF ok
          THEN /\ isOpen' = Append(isOpen, TRUE)
               /\ device' = Len(isOpen) + 1
               /\ Logged(t, "open")
               /\ pc' = [pc EXCEPT ![t] = "opened"]
               /\ UNCHANGED result
          ELSE /\ Finish(t, Raised("SerialException", "could not open port"))
               /\ UNCHANGED <<isOpen, device, log>>
    /\ UNCHANGED <<cmd, slp, frame, dev, sent, resp,
                   exc, decoderVars, opVars>>

\* __enter__, lines 136-140: Serial.open() of the object held, which raises
\* when the object is open already.
EnterOpen(t) ==
    /\ pc[t] = "open"
    /\ \E ok \in BOOLEAN :
          IF isOpen[device]
          THEN /\ Finish(t, Raised("SerialException", "Port is already open."))
               /\ UNCHANGED <<isOpen, log>>
          ELSE IF ok
          THEN /\ isOpen' = [isOpen EXCEPT ![device] = TRUE]
               /\ Logged(t, "open")
               /\ pc' = [pc EXCEPT ![t] = "opened"]
               /\ UNCHANGED result
          ELSE /\ Finish(t, Raised("SerialException", "could not open port"))
               /\ UNCHANGED <<isOpen, log>>
    /\ UNCHANGED <<device, cmd, slp, frame, dev,
                   sent, resp, exc, decoderVars, opVars>>

\* __enter__, lines 144-148: the object is returned if it is open.
EnterReturn(t) ==
    /\ pc[t] = "opened"
    /\ IF isOpen[device]
       THEN /\ dev' = [dev EXCEPT ![t] = device]
            /\ pc' = [pc EXCEPT ![t] = "write"]
            /\ UNCHANGED result
       ELSE /\ Finish(t, Raised("ConnectionError", "Failed to open device"))
            /\ UNCHANGED dev
    /\ UNCHANGED <<device, isOpen, cmd, slp, frame,
                   sent, resp, exc, log, decoderVars, opVars>>

\* A variant of Write that goes on to the read without the wait.
WriteNoWait(t) ==
    /\ pc[t] = "write"
    /\ \E ok \in BOOLEAN :
          IF ok /\ isOpen[dev[t]]
          THEN /\ sent' = [sent EXCEPT ![t] = frame[t]]
               /\ Logged(t, "write")
               /\ pc' = [pc EXCEPT ![t] = "read"]
               /\ UNCHANGED exc
          ELSE /\ exc' = [exc EXCEPT ![t] = "SerialException"]
               /\ pc' = [pc EXCEPT ![t] = "exit"]
               /\ UNCHANGED <<sent, log>>
    /\ UNCHANGED <<device, isOpen, cmd, slp, frame,
                   dev, resp, result, decoderVars, opVars>>

\* Line 1441: dev.write(cmd).
Write(t) ==
    /\ pc[t] = "write"
    /\ \E ok \in BOOLEAN :
          IF ok /\ isOpen[dev[t]]
          THEN /\ sent' = [sent EXCEPT ![t] = frame[t]]
               /\ Logged(t, "write")
               /\ pc' = [pc EXCEPT ![t] = IF slp[t] # "None" THEN "sleep"
                                          ELSE "read"]
               /\ UNCHANGED exc
          ELSE /\ exc' = [exc EXCEPT ![t] = "SerialException"]
               /\ pc' = [pc EXCEPT ![t] = "exit"]
               /\ UNCHANGED <<sent, log>>
    /\ UNCHANGED <<device, isOpen, cmd, slp, frame,
                   dev, resp, result, decoderVars, opVars>>

\* Lines 1443-1444: the wait a sleep_time asks for; time.sleep raises
\* ValueError on a negative time.
Sleep(t) ==
    /\ pc[t] = "sleep"
    /\ IF slp[t] = "negative"
       THEN /\ exc' = [exc EXCEPT ![t] = "ValueError"]
            /\ pc' = [pc EXCEPT ![t] = "exit"]
            /\ UNCHANGED log
       ELSE /\ Logged(t, "sleep")
            /\ pc' = [pc EXCEPT ![t] = "read"]
            /\ UNCHANGED exc
    /\ UNCHANGED <<device, isOpen, cmd, slp, frame,
                   dev, sent, resp, result, decoderVars, opVars>>

\* Line 1447: response = dev.readall().  The command is not used after the
\* write: the model forgets it here.
Read(t, responses) ==
    /\ pc[t] = "read"
    /\ \E ok \in BOOLEAN, r \in responses :
          IF ok /\ isOpen[dev[t]]
          THEN /\ resp' = [resp EXCEPT ![t] = r]
               /\ Logged(t, "read")
               /\ UNCHANGED exc
          ELSE /\ exc' = [exc EXCEPT ![t] = "SerialException"]
               /\ UNCHANGED <<resp, log>>
    /\ pc' = [pc EXCEPT ![t] = "exit"]
    /\ cmd' = [cmd EXCEPT ![t] = [kind |-> "other", data |-> <<>>]]
    /\ slp' = [slp EXCEPT ![t] = "None"]
    /\ frame' = [frame EXCEPT ![t] = <<>>]
    /\ sent' = [sent EXCEPT ![t] = <<>>]
    /\ UNCHANGED <<device, isOpen, dev, result,
                   decoderVars, opVars>>

\* A variant of __exit__ that closes only when the with block raised nothing.
__exit__skip(t) ==
    /\ pc[t] = "exit"
    /\ IF isOpen[device] /\ exc[t] = ""
       THEN /\ isOpen' = [isOpen EXCEPT ![device] = FALSE]
            /\ Logged(t, "close")
       ELSE UNCHANGED <<isOpen, log>>
    /\ pc' = [pc EXCEPT ![t] = "closed"]
    /\ UNCHANGED <<device, cmd, slp, frame, dev,
                   sent, resp, exc, result, decoderVars, opVars>>

\* __exit__, lines 168-177, which the with block runs however it is left:
\* the object held is closed if it is open.
__exit__(t) ==
    /\ pc[t] = "exit"
    /\ IF isOpen[device]
       THEN /\ isOpen' = [isOpen EXCEPT ![device] = FALSE]
            /\ Logged(t, "close")
       ELSE UNCHANGED <<isOpen, log>>
    /\ pc' = [pc EXCEPT ![t] = "closed"]
    /\ UNCHANGED <<device, cmd, slp, frame, dev,
                   sent, resp, exc, result, decoderVars, opVars>>

\* __exit__, lines 179-182, then the exception of the with block if there is
\* one, then lines 1449-1471 on the response.
Leave(t) ==
    /\ pc[t] = "closed"
    /\ Finish(t, IF isOpen[device]
                 THEN Raised("ConnectionError", "Failed to close device.")
                 ELSE IF exc[t] # "" THEN Raised(exc[t], "")
                 ELSE DecodeResponse(resp[t]))
    /\ UNCHANGED <<device, isOpen, cmd, slp, frame,
                   dev, sent, resp, exc, log, decoderVars, opVars>>

\* The caller has the outcome; its next call starts afresh.
Done(t) ==
    /\ pc[t] = "done"
    /\ pc' = [pc EXCEPT ![t] = "idle"]
    /\ cmd' = [cmd EXCEPT ![t] = [kind |-> "other", data |-> <<>>]]
    /\ slp' = [slp EXCEPT ![t] = "None"]
    /\ frame' = [frame EXCEPT ![t] = <<>>]
    /\ dev' = [dev EXCEPT ![t] = 0]
    /\ resp' = [resp EXCEPT ![t] = <<>>]
    /\ exc' = [exc EXCEPT ![t] = ""]
    /\ result' = [result EXCEPT ![t] = NoResult]
    /\ log' = [log EXCEPT ![t] = <<>>]
    /\ UNCHANGED <<device, isOpen, sent, decoderVars, opVars>>

\* No caller is in a call.
InitCallers ==
    /\ pc = [t \in Threads |-> "idle"]
    /\ cmd = [t \in Threads |-> [kind |-> "other", data |-> <<>>]]
    /\ slp = [t \in Threads |-> "None"]
    /\ frame = [t \in Threads |-> <<>>]
    /\ dev = [t \in Threads |-> 0]
    /\ sent = [t \in Threads |-> <<>>]
    /\ resp = [t \in Threads |-> <<>>]
    /\ exc = [t \in Threads |-> ""]
    /\ result = [t \in Threads |-> NoResult]
    /\ log = [t \in Threads |-> <<>>]

\* Lines 93-94: a session object that has made no exchange has no Serial
\* object.
InitSession ==
    /\ device = 0
    /\ isOpen = <<>>
    /\ InitCallers

NoDecoder ==
    /\ buf = <<>>
    /\ offset = 0
    /\ fn = ""
    /\ out = NoOut

\* The program starts where no _map.json exists: lines 63-66 leave the cache
\* empty.
Idle ==
    [kind |-> "", stage |-> "idle", name |-> <<>>, val |-> <<>>, num |-> 0,
     remap |-> FALSE, hadCache |-> FALSE, rebuild |-> FALSE, i |-> 0,
     asked |-> <<>>, wrote |-> FALSE, res |-> NoResult,
     img |-> <<>>, offsets |-> <<>>, chunks |-> <<>>,
     phase |-> "", payload |-> <<>>, rec |-> <<>>,
     held |-> [device |-> 0, isOpen |-> <<>>]]

NoFile == [exists |-> FALSE, doc |-> <<>>]

NoOperation ==
    /\ _map = <<>>
    /\ map_json = NoFile
    /\ op = Idle
    /\ written = <<>>
    /\ alive = FALSE

Init == InitSession /\ NoDecoder /\ NoOperation

\* The steps of caller t, its commands and the device's answers drawn from
\* the given sets.
Step(t, commands, responses) ==
    \/ Call(t, commands)
    \/ EnterTest(t)
    \/ EnterCreate(t)
    \/ EnterOpen(t)
    \/ EnterReturn(t)
    \/ Write(t)
    \/ Sleep(t)
    \/ Read(t, responses)
    \/ __exit__(t)
    \/ Leave(t)
    \/ Done(t)

\* One caller: the exchanges of a session follow one another.
Next == Step(1, Commands, Responses)

Spec == Init /\ [][Next]_vars

\* Two callers on one session.
NextConc == \E t \in Threads : Step(t, FewCommands, FewResponses)

SpecConc == Init /\ [][NextConc]_vars

-----------------------------------------------------------------------------
(* The byte decoders applied to every buffer and offset of the bounds. *)

Offsets == -1..MaxBufLen

\* Every buffer of exactly two bytes.
Words16 == [1..2 -> 0..255]

\* Buffers long enough for a double: byte i is first + 7 * i (mod 256), so
\* that no two bytes of a buffer are equal.
Ramps ==
    {[i \in 1..n |-> (first + 7 * (i - 1)) % 256] :
        n \in 0..MaxRampLen, first \in {1, 200}}

\* A buffer over ByteVals with any offset, any two-byte buffer with offset 0,
\* or a ramp with any offset.
InitBytes ==
    /\ InitSession
    /\ \/ buf \in SeqsUpTo(ByteVals, MaxBufLen) /\ offset \in Offsets
       \/ buf \in Words16 /\ offset = 0
       \/ buf \in Ramps /\ offset \in Offsets
    /\ fn = ""
    /\ out = NoOut
    /\ NoOperation

ReadU16 ==
    /\ fn = ""
    /\ fn' = "_read_u16"
    /\ out' = _read_u16(buf, offset)
    /\ UNCHANGED <<buf, offset, sessionVars, opVars>>

ReadI16 ==
    /\ fn = ""
    /\ fn' = "_read_i16"
    /\ out' = _read_i16(buf, offset)
    /\ UNCHANGED <<buf, offset, sessionVars, opVars>>

ReadDouble ==
    /\ fn = ""
    /\ fn' = "_read_double"
    /\ out' = _read_double(buf, offset)
    /\ UNCHANGED <<buf, offset, sessionVars, opVars>>

NextBytes == ReadU16 \/ ReadI16 \/ ReadDouble

SpecBytes == InitBytes /\ [][NextBytes]_vars

-----------------------------------------------------------------------------
(* The operations of a session on the vocabulary: construction, QEMAP, the  *)
(* setters and press_button, and the lookup of the parsers.  One caller     *)
(* (caller 1) runs them one after the other; each _command they make goes   *)
(* through the steps of the exchange above.                                 *)

ON == Txt(<<"O", "N">>)

OFF == Txt(<<"O", "F", "F">>)

MAYBE == Txt(<<"M", "A", "Y", "B", "E">>)

UNIT == Txt(<<"U", "N", "I", "T">>)

BEEPER == Txt(<<"B", "E", "E", "P", "E", "R">>)

HOLD == Txt(<<"H", "O", "L", "D">>)

\* _map_keys, lines 51-61: two of its 56 names, in the order declared.
_map_keys == <<UNIT, BEEPER>>

\* _buttons, lines 44-45.
_buttons ==
    <<Txt(<<"O", "N", "O", "F", "F">>), Txt(<<"M", "I", "N", "M", "A", "X">>),
      Txt(<<"U", "P">>), Txt(<<"L", "E", "F", "T">>),
      Txt(<<"R", "I", "G", "H", "T">>), Txt(<<"D", "O", "W", "N">>),
      Txt(<<"I", "N", "F", "O">>), Txt(<<"F", "1">>), Txt(<<"F", "2">>),
      Txt(<<"F", "3">>), Txt(<<"F", "4">>), Txt(<<"R", "A", "N", "G", "E">>),
      Txt(<<"B", "A", "C", "K", "L", "I", "G", "H", "T">>), HOLD>>

\* The values the auto_poweroff_timeout setter accepts, line 822.
PowerOffTimes == {0, 900, 1500, 2100, 2700, 3600}

\* The values the modelled callers pass.
BeeperVals == {ON, OFF, MAYBE, Txt(<<"1">>)}

PowerOffVals == {0, 900, 901}

ButtonVals == {HOLD, MAYBE}

Codes == {0, 1, 2}

\* The fields joined by commas.
RECURSIVE Join(_)
Join(fields) ==
    IF Len(fields) = 1 THEN fields[1]
    ELSE fields[1] \o <<Comma>> \o Join(Tail(fields))

\* What the device answers to a QEMAP: status "0" and a vocabulary of no pair
\* or two pairs, one with a code twice, two with a count that differs from
\* the pairs, two with a field that is not a number, an empty payload; and
\* status "1".
VocabTexts ==
    {Join(<<Txt(<<"0">>)>>),
     Join(<<Txt(<<"2">>), Txt(<<"0">>), OFF, Txt(<<"1">>), ON>>),
     Join(<<Txt(<<"2">>), Txt(<<"1">>), ON, Txt(<<"1">>), OFF>>),
     Join(<<Txt(<<"2">>), Txt(<<"1">>), ON>>),
     Join(<<Txt(<<"1">>), Txt(<<"0">>), OFF, Txt(<<"1">>), ON>>),
     Join(<<Txt(<<"2">>), Txt(<<"1">>), ON, Txt(<<"A">>), OFF>>),
     Join(<<Txt(<<"A">>), Txt(<<"1">>), ON>>),
     <<>>}

VocabResponses ==
    {<<Digit0>> \o text \o <<CR>> : text \in VocabTexts} \cup {<<Digit1, CR>>}

\* What the device answers to a setting or a button: status "0" or "1".
AckResponses == {<<Digit0, CR>>, <<Digit1, CR>>}

\* The answers to the command of the operation in progress.
Answers ==
    IF op.kind \in {"__init__", "QEMAP"} THEN VocabResponses ELSE AckResponses

\* The caller calls _command(c, sleep_time): lines 1415-1435, as in Call,
\* the caller's variables of an earlier call forgotten.
CommandSleeping(c, s) ==
    LET enc == EncodeCommand(c)
    IN /\ cmd' = [cmd EXCEPT ![1] = c]
       /\ slp' = [slp EXCEPT ![1] = s]
       /\ frame' = [frame EXCEPT ![1] = IF enc.kind = "raise" THEN <<>>
                                        ELSE enc.payload]
       /\ pc' = [pc EXCEPT ![1] = IF enc.kind = "raise" THEN EndOfCall(enc)
                                  ELSE "enter"]
       /\ result' = [result EXCEPT ![1] = IF enc.kind = "raise" THEN enc
                                          ELSE NoResult]
       /\ dev' = [dev EXCEPT ![1] = 0]
       /\ sent' = [sent EXCEPT ![1] = <<>>]
       /\ resp' = [resp EXCEPT ![1] = <<>>]
       /\ exc' = [exc EXCEPT ![1] = ""]
       /\ log' = [log EXCEPT ![1] = <<>>]

\* The caller calls _command(c) with no sleep_time.
Command(c) == CommandSleeping(c, "None")

Str(text) == [kind |-> "str", data |-> text]

\* The operation makes no call of _command.
NoCommand ==
    /\ cmd' = [cmd EXCEPT ![1] = [kind |-> "other", data |-> <<>>]]
    /\ slp' = [slp EXCEPT ![1] = "None"]
    /\ frame' = [frame EXCEPT ![1] = <<>>]
    /\ pc' = [pc EXCEPT ![1] = "idle"]
    /\ result' = [result EXCEPT ![1] = NoResult]
    /\ dev' = [dev EXCEPT ![1] = 0]
    /\ sent' = [sent EXCEPT ![1] = <<>>]
    /\ resp' = [resp EXCEPT ![1] = <<>>]
    /\ exc' = [exc EXCEPT ![1] = ""]
    /\ log' = [log EXCEPT ![1] = <<>>]

\* _command has returned to the operation: its locals are gone, the log of
\* its transport events stays.
Forgets ==
    /\ cmd' = [cmd EXCEPT ![1] = [kind |-> "other", data |-> <<>>]]
    /\ slp' = [slp EXCEPT ![1] = "None"]
    /\ frame' = [frame EXCEPT ![1] = <<>>]
    /\ pc' = [pc EXCEPT ![1] = "idle"]
    /\ result' = [result EXCEPT ![1] = NoResult]
    /\ dev' = [dev EXCEPT ![1] = 0]
    /\ sent' = [sent EXCEPT ![1] = <<>>]
    /\ resp' = [resp EXCEPT ![1] = <<>>]
    /\ exc' = [exc EXCEPT ![1] = ""]
    /\ UNCHANGED log

\* The method of the session returns or raises.
Returns == Forgets /\ UNCHANGED <<device, isOpen>>

\* No operation is in progress.
Free == op.stage # "busy"

Ended(res) == IF res.kind = "raise" THEN "failed" ELSE "ok"

\* Lines 63-66, when the program is started again: the cache is what
\* _map.json holds, if the file exists.  No session object exists yet, and
\* the operations below need one.
Import ==
    /\ Free
    /\ _map' = IF map_json.exists THEN load_json(map_json.doc) ELSE <<>>
    /\ op' = [Idle EXCEPT !.kind = "import", !.stage = "ok"]
    /\ alive' = FALSE
    /\ device' = 0
    /\ isOpen' = <<>>
    /\ NoCommand
    /\ UNCHANGED <<map_json, written, decoderVars>>

\* A variant of NeedsRebuild that looks at the request alone.
NeedsRebuildOnRequest(remap, map) == remap

\* Line 100: remap or (len(self._map) == 0).
NeedsRebuild(remap, map) == remap \/ Len(map) = 0

\* __init__, lines 89-105: a new session object; the cache is emptied and the
\* first name queried if remap is set or the cache is empty.  device and
\* isOpen are from here on those of the new object; those of the session
\* object made earlier, if there is one, are held until the rebuild ends.
__init__(remap) ==
    /\ Free
    /\ device' = 0
    /\ isOpen' = <<>>
    /\ LET rebuild == NeedsRebuild(remap, _map)
       IN /\ op' = [Idle EXCEPT !.kind = "__init__",
                                !.stage = IF rebuild THEN "busy" ELSE "ok",
                                !.remap = remap,
                                !.hadCache = (Len(_map) # 0),
                                !.rebuild = rebuild,
                                !.i = IF rebuild THEN 1 ELSE 0,
                                !.name = IF rebuild THEN _map_keys[1] ELSE <<>>,
                                !.asked = IF rebuild THEN <<_map_keys[1]>>
                                          ELSE <<>>,
                                !.held = IF rebuild
                                         THEN [device |-> device,
                                               isOpen |-> isOpen]
                                         ELSE @]
          /\ IF rebuild
             THEN /\ _map' = <<>>
                  /\ Command(Str(Txt(<<"Q", "E", "M", "A", "P", " ">>)
                                 \o _map_keys[1]))
                  /\ UNCHANGED alive
             ELSE /\ UNCHANGED _map
                  /\ NoCommand
                  /\ alive' = TRUE
    /\ UNCHANGED <<map_json, written, decoderVars>>

\* A variant of Stored that empties the table of the name when the query
\* failed.
StoredOrEmptied(map, map_name, r) ==
    IF r.kind = "return" THEN DictSet(map, map_name, r.payload)
    ELSE DictSet(map, map_name, <<>>)

\* Line 1335, which only a QEMAP that raised nothing reaches:
\* Fluke289._map[map_name] = submap.
Stored(map, map_name, r) ==
    IF r.kind = "return" THEN DictSet(map, map_name, r.payload) ELSE map

\* QEMAP(map_name), line 1321: the query is sent.
QEMAP(map_name) ==
    /\ Free
    /\ alive
    /\ op' = [Idle EXCEPT !.kind = "QEMAP", !.stage = "busy",
                          !.name = map_name, !.asked = <<map_name>>]
    /\ Command(Str(Txt(<<"Q", "E", "M", "A", "P", " ">>) \o map_name))
    /\ UNCHANGED <<device, isOpen, _map, map_json, written, alive,
                   decoderVars>>

\* QEMAP, lines 1321-1337, once _command has ended: the submap is stored under
\* the name, or the error leaves the method.
QEMAPReturn ==
    /\ op.kind = "QEMAP" /\ op.stage = "busy" /\ pc[1] = "done"
    /\ LET r == ParseReply(result[1])
       IN /\ op' = [op EXCEPT !.stage = Ended(r), !.res = r]
          /\ _map' = Stored(_map, op.name, r)
    /\ Returns
    /\ UNCHANGED <<map_json, written, alive, decoderVars>>

\* __init__, lines 105-111: the QEMAP of one name has ended.  An error leaves
\* __init__: the object under construction is dropped with its Serial
\* object, and a session object made earlier is as it was, its _device its
\* own.  Otherwise the next name is queried, and after the last name the
\* cache is written to _map.json.
Rebuild ==
    /\ op.kind = "__init__" /\ op.stage = "busy" /\ pc[1] = "done"
    /\ LET r == ParseReply(result[1])
       IN IF r.kind = "raise"
          THEN /\ op' = [op EXCEPT !.stage = "failed", !.res = r,
                                   !.held = Idle.held]
               /\ Forgets
               /\ device' = op.held.device
               /\ isOpen' = op.held.isOpen
               /\ _map' = Stored(_map, op.name, r)
               /\ UNCHANGED <<map_json, written, alive>>
          ELSE /\ _map' = Stored(_map, op.name, r)
               /\ IF op.i < Len(_map_keys)
                  THEN /\ op' = [op EXCEPT !.i = op.i + 1,
                                           !.name = _map_keys[op.i + 1],
                                           !.asked = Append(@,
                                                       _map_keys[op.i + 1])]
                       /\ Command(Str(Txt(<<"Q", "E", "M", "A", "P", " ">>)
                                      \o _map_keys[op.i + 1]))
                       /\ UNCHANGED <<map_json, written, alive, device,
                                      isOpen>>
                  ELSE /\ op' = [op EXCEPT !.stage = "ok", !.wrote = TRUE,
                                           !.res = Returned(<<>>),
                                           !.held = Idle.held]
                       /\ map_json' = [exists |-> TRUE,
                                       doc |-> write_json(_map')]
                       /\ written' = _map'
                       /\ alive' = TRUE
                       /\ Returns
    /\ UNCHANGED decoderVars

\* A variant of the beeper setter that sends the command whatever _map_check
\* finds.
beeper_unchecked(val) ==
    /\ Free
    /\ alive
    /\ op' = [Idle EXCEPT !.kind = "beeper", !.stage = "busy",
                          !.name = BEEPER, !.val = val]
    /\ Command(Str(Txt(<<"M", "P", " ", "B", "E", "E", "P", "E",
                         "R", ",", " ">>) \o val))
    /\ UNCHANGED <<device, isOpen, opVarsKept, decoderVars>>

\* The beeper setter, lines 310-311: _map_check, then the command.
beeper(val) ==
    /\ Free
    /\ alive
    /\ LET check == _map_check(_map, val, BEEPER)
       IN IF check.kind = "raise"
          THEN /\ op' = [Idle EXCEPT !.kind = "beeper", !.stage = "failed",
                                     !.name = BEEPER, !.val = val,
                                     !.res = check]
               /\ NoCommand
          ELSE /\ op' = [Idle EXCEPT !.kind = "beeper", !.stage = "busy",
                                     !.name = BEEPER, !.val = val]
               /\ Command(Str(Txt(<<"M", "P", " ", "B", "E", "E", "P", "E",
                                    "R", ",", " ">>) \o val))
    /\ UNCHANGED <<device, isOpen, opVarsKept, decoderVars>>

\* The beeper getter, line 292: query("QMP BEEPER").
beeper_get ==
    /\ Free
    /\ alive
    /\ op' = [Idle EXCEPT !.kind = "beeper_get", !.stage = "busy",
                          !.name = BEEPER]
    /\ Command(Str(Txt(<<"Q", "M", "P", " ", "B", "E", "E", "P", "E", "R">>)))
    /\ UNCHANGED <<device, isOpen, opVarsKept, decoderVars>>

\* The auto_poweroff_timeout setter, lines 821-827: the test against the
\* list, then the command.
auto_poweroff_timeout(val) ==
    /\ Free
    /\ alive
    /\ IF val \notin PowerOffTimes
       THEN /\ op' = [Idle EXCEPT !.kind = "auto_poweroff_timeout",
                                  !.stage = "failed", !.num = val,
                                  !.res = Raised("ValueError",
                                      "Error setting auto_poweroff_timeout")]
            /\ NoCommand
       ELSE /\ op' = [Idle EXCEPT !.kind = "auto_poweroff_timeout",
                                  !.stage = "busy", !.num = val]
            /\ Command(Str(Txt(<<"M", "P", " ", "A", "P", "O", "F", "F", "T",
                                 "O", ",", " ">>) \o str(val)))
    /\ UNCHANGED <<device, isOpen, opVarsKept, decoderVars>>

\* press_button, lines 910-914.
press_button(button) ==
    /\ Free
    /\ alive
    /\ IF \A i \in 1..Len(_buttons) : _buttons[i] # button
       THEN /\ op' = [Idle EXCEPT !.kind = "press_button",
                                  !.stage = "failed", !.val = button,
                                  !.res = Raised("ValueError",
                                                 "Invalid choice of button.")]
            /\ NoCommand
       ELSE /\ op' = [Idle EXCEPT !.kind = "press_button",
                                  !.stage = "busy", !.val = button]
            /\ Command(Str(Txt(<<"P", "R", "E", "S", "S", " ">>) \o button))
    /\ UNCHANGED <<device, isOpen, opVarsKept, decoderVars>>

\* The setters, press_button and the getter return once _command has ended:
\* the setters and press_button return None, the getter the decoded payload.
SetReturn ==
    /\ op.kind \in {"beeper", "auto_poweroff_timeout", "press_button",
                    "beeper_get"}
    /\ op.stage = "busy" /\ pc[1] = "done"
    /\ LET r == IF result[1].kind = "raise" THEN result[1]
                ELSE IF op.kind = "beeper_get" THEN decode(result[1].payload)
                ELSE Returned(<<>>)
       IN op' = [op EXCEPT !.stage = Ended(r), !.res = r]
    /\ Returns
    /\ UNCHANGED <<opVarsKept, decoderVars>>

\* A binary record parser resolves the raw code it read for a field of the
\* table key: self._map[key][str(code)], lines 978-980 and 1528-1535.
Lookup(key, code) ==
    /\ Free
    /\ alive
    /\ LET r == Resolve(_map, key, code)
       IN op' = [Idle EXCEPT !.kind = "lookup", !.stage = Ended(r),
                             !.name = key, !.num = code, !.res = r]
    /\ NoCommand
    /\ UNCHANGED <<device, isOpen, opVarsKept, decoderVars>>

NextVocab ==
    \/ Import
    \/ \E remap \in BOOLEAN : __init__(remap)
    \/ \E map_name \in {UNIT, BEEPER} : QEMAP(map_name)
    \/ QEMAPReturn
    \/ Rebuild
    \/ beeper_get
    \/ \E val \in BeeperVals : beeper(val)
    \/ \E val \in PowerOffVals : auto_poweroff_timeout(val)
    \/ \E button \in ButtonVals : press_button(button)
    \/ SetReturn
    \/ \E code \in Codes : Lookup(UNIT, code)
    \/ EnterTest(1)
    \/ EnterCreate(1)
    \/ EnterOpen(1)
    \/ EnterReturn(1)
    \/ Write(1)
    \/ Read(1, Answers)
    \/ __exit__(1)
    \/ Leave(1)

SpecVocab == Init /\ [][NextVocab]_vars

-----------------------------------------------------------------------------
(* QLCDBM, lines 1227-1289: the screenshot is transferred in chunks. *)

\* The number of _command calls one QLCDBM may make in the model.
MaxRequests == 5

Space == 32

\* Line 1239: the size of a full first chunk.
FirstFull == 1018

\* Line 1269: the size of one exchange.
Window == 1020

\* A variant of Full that takes every chunk of the first chunk's size for
\* a full one.
FullAsFirst(at) == FirstFull

\* Line 1269: the size of a full chunk asked at an offset.
Full(at) == Window - Len(str(at) \o <<Space>>)

\* A variant of Advance that asks again at the same offset.
AdvanceNone(at, nbytes) == at

\* Line 1275: the offset moves forward by the bytes of the chunk.
Advance(at, nbytes) == at + nbytes

\* Lines 1231 and 1256: what QLCDBM removes from the front of the payload.
ChunkPrefix(at) == Utf8(str(at)) \o <<Space, Hash, Digit0>>

\* Lines 1230 and 1251: the command that asks for the chunk at an offset.
ChunkCommand(at) == Str(Txt(<<"Q", "L", "C", "D", "B", "M">>) \o <<Space>> \o str(at))

\* n bytes of compressed bitmap.
Fill(n) == [i \in 1..n |-> 255]

\* The data bytes the device fits in one exchange after an offset of four
\* digits and a space.
Fit4 == Window - (Len(str(FirstFull)) + 1)

\* The sizes of the chunks the device returns: nothing, a few bytes, what fits
\* after an offset of four digits, what fits after the offset 0.
ChunkLens == {0, 7, Fit4, FirstFull}

\* What the device puts before the data of the chunk at an offset: status "0"
\* and the offset it answers.
ChunkHead(at) == <<Digit0, CR>> \o ChunkPrefix(at)

\* The two bytes every gzip stream starts with.
GzipMagic == <<31, 139>>

\* The data of the chunks the device returns at an offset: bytes that start
\* no gzip stream and, at offset 0, bytes that start one.
ChunkData(at) ==
    {Fill(n) : n \in ChunkLens}
    \cup (IF at = 0 THEN {GzipMagic \o Fill(n - 2) : n \in ChunkLens \ {0}}
          ELSE {})

\* What the device answers to the request at an offset: status "0" and a
\* chunk, or status "1".
ChunkResponses(at) ==
    {ChunkHead(at) \o data \o <<CR>> : data \in ChunkData(at)}
    \cup {<<Digit1, CR>>}

\* Lines 1283-1289: what decompress and Image.open make of the buffer.  An
\* empty buffer decompresses to nothing, in which Image.open finds no image;
\* a buffer that does not start with the gzip magic is refused.  Of any other
\* buffer only the start is modelled: it decompresses to an image that is
\* returned; or decompress refuses its header or its check sums
\* (BadGzipFile), finds it cut short (EOFError) or finds no deflate stream
\* after the header (zlib.error); or it decompresses to bytes in which
\* Image.open finds no image.
Opened(img) ==
    IF img = <<>> THEN {Raised("UnidentifiedImageError", "")}
    ELSE IF ~startswith(img, GzipMagic) THEN {Raised("BadGzipFile", "")}
    ELSE {Returned(<<>>), Raised("BadGzipFile", ""), Raised("EOFError", ""),
          Raised("zlib.error", ""), Raised("UnidentifiedImageError", "")}

\* The number of data bytes in the device's answer to the request at an
\* offset.
DataLen(r, at) == Len(r) - Len(ChunkHead(at)) - 1

\* The answers to the command QLCDBM has in progress.
ChunkAnswers == ChunkResponses(op.num)

\* The program starts where _map.json holds the vocabulary of an earlier
\* rebuild: lines 63-66 load it.
CachedMap ==
    <<<<UNIT, <<<<IntKey(0), OFF>>, <<IntKey(1), ON>>>>>>,
      <<BEEPER, <<<<IntKey(0), OFF>>, <<IntKey(1), ON>>>>>>>>

InitChunk ==
    /\ InitSession
    /\ NoDecoder
    /\ map_json = [exists |-> TRUE, doc |-> write_json(CachedMap)]
    /\ _map = load_json(map_json.doc)
    /\ op = Idle
    /\ written = <<>>
    /\ alive = FALSE

\* QLCDBM, line 1230: the first chunk is asked for, with a wait.
QLCDBM ==
    /\ Free
    /\ alive
    /\ op' = [Idle EXCEPT !.kind = "QLCDBM", !.stage = "busy", !.num = 0,
                          !.offsets = <<0>>]
    /\ CommandSleeping(ChunkCommand(0), "positive")
    /\ UNCHANGED <<device, isOpen, opVarsKept, decoderVars>>

\* QLCDBM, lines 1230-1289, once a _command has ended.  An error leaves the
\* method.  Otherwise the prefix is removed and the rest appended to img;
\* after a full chunk the next one is asked for at the advanced offset, after
\* any other the buffer goes to decompress and Image.open.
\* Sent(r, at) is the number of data bytes the device put in the answer r:
\* what the device knows and QLCDBM does not.
Chunked(Sent(_, _)) ==
    /\ op.kind = "QLCDBM" /\ op.stage = "busy" /\ pc[1] = "done"
    /\ LET r == result[1]
           first == Len(op.offsets) = 1
           tmp == removeprefix(r.payload, ChunkPrefix(op.num))
           nbytes == Len(tmp)
           more_to_read == IF first THEN nbytes = FirstFull
                           ELSE nbytes = Full(op.num)
           img == op.img \o tmp
           next == IF first THEN FirstFull ELSE Advance(op.num, nbytes)
           got == Append(op.chunks, Sent(resp[1], op.num))
       IN IF r.kind = "raise"
          THEN /\ op' = [op EXCEPT !.stage = "failed", !.res = r]
               /\ Returns
          ELSE IF more_to_read
          THEN /\ Len(op.offsets) < MaxRequests
               /\ op' = [op EXCEPT !.img = img, !.num = next,
                                   !.offsets = Append(@, next),
                                   !.chunks = got]
               /\ Command(ChunkCommand(next))
               /\ UNCHANGED <<device, isOpen>>
          ELSE /\ \E image \in Opened(img) :
                      op' = [op EXCEPT !.img = img, !.chunks = got,
                                       !.stage = Ended(image), !.res = image]
               /\ Returns
    /\ UNCHANGED <<opVarsKept, decoderVars>>

\* Against a device that ends every answer with a carriage return.
QLCDBMChunk == Chunked(DataLen)

NextChunk ==
    \/ __init__(FALSE)
    \/ QLCDBM
    \/ QLCDBMChunk
    \/ EnterTest(1)
    \/ EnterCreate(1)
    \/ EnterOpen(1)
    \/ EnterReturn(1)
    \/ Write(1)
    \/ Sleep(1)
    \/ Read(1, ChunkAnswers)
    \/ __exit__(1)
    \/ Leave(1)

SpecChunk == InitChunk /\ [][NextChunk]_vars

\* The data of the chunks of a device that sends a chunk as it is, with no
\* carriage return after it: the bitmap's bytes, of which the last may be a
\* carriage return.
RawData(at) ==
    ChunkData(at)
    \cup {SubSeq(data, 1, Len(data) - 1) \o <<CR>> :
             data \in ChunkData(at) \ {<<>>}}

\* What that device answers to the request at an offset.
RawResponses(at) ==
    {ChunkHead(at) \o data : data \in RawData(at)} \cup {<<Digit1, CR>>}

RawAnswers == RawResponses(op.num)

\* The number of data bytes in an answer of that device.
RawLen(r, at) == Len(r) - Len(ChunkHead(at))

QLCDBMChunkRaw == Chunked(RawLen)

NextChunkRaw ==
    \/ __init__(FALSE)
    \/ QLCDBM
    \/ QLCDBMChunkRaw
    \/ EnterTest(1)
    \/ EnterCreate(1)
    \/ EnterOpen(1)
    \/ EnterReturn(1)
    \/ Write(1)
    \/ Sleep(1)
    \/ Read(1, RawAnswers)
    \/ __exit__(1)
    \/ Leave(1)

SpecChunkRaw == InitChunk /\ [][NextChunkRaw]_vars

\* The answers of a device whose bitmap ends: up to the last request of the
\* bound it answers as any device does, and to the last request with an error
\* or a chunk that is not a full one for the offset (line 1272).
FiniteAnswers ==
    IF Len(op.offsets) < MaxRequests THEN ChunkResponses(op.num)
    ELSE {r \in ChunkResponses(op.num) : DataLen(r, op.num) # Full(op.num)}

NextChunkFair ==
    \/ __init__(FALSE)
    \/ QLCDBM
    \/ QLCDBMChunk
    \/ EnterTest(1)
    \/ EnterCreate(1)
    \/ EnterOpen(1)
    \/ EnterReturn(1)
    \/ Write(1)
    \/ Sleep(1)
    \/ Read(1, FiniteAnswers)
    \/ __exit__(1)
    \/ Leave(1)

\* QLCDBM is straight-line code in one thread, and every call it makes
\* returns or raises (the read has a timeout, line 137): the thread goes on
\* whenever it has a step to take.
SpecChunkFair ==
    InitChunk /\ [][NextChunkFair]_vars /\ WF_vars(NextChunkFair)

-----------------------------------------------------------------------------
(* The record queries QSLS, QSMR, QDDB, QRSI and QDDA, and the setter of    *)
(* custom_decibel_meter_reference.                                          *)

PRIMFUNCTION == Txt(<<"P", "R", "I", "M", "F", "U", "N", "C", "T", "I", "O", "N">>)

SECFUNCTION == Txt(<<"S", "E", "C", "F", "U", "N", "C", "T", "I", "O", "N">>)

AUTORANGE == Txt(<<"A", "U", "T", "O", "R", "A", "N", "G", "E">>)

BOLT == Txt(<<"B", "O", "L", "T">>)

MODE == Txt(<<"M", "O", "D", "E">>)

READINGID == Txt(<<"R", "E", "A", "D", "I", "N", "G", "I", "D">>)

STATE_ == Txt(<<"S", "T", "A", "T", "E">>)

ATTRIBUTE == Txt(<<"A", "T", "T", "R", "I", "B", "U", "T", "E">>)

\* The names of _map_keys the record parsers look codes up under.
RecordKeys ==
    <<PRIMFUNCTION, SECFUNCTION, AUTORANGE, UNIT, BOLT, MODE, READINGID,
      STATE_, ATTRIBUTE>>

\* The label the device gives the code of a name: here the name and the code.
Label(name, code) == name \o str(code)

\* The cache a rebuild of this run has built when the device answered every
\* name of RecordKeys with the codes 0 and 1: the keys are integers.
BuiltMap ==
    [i \in 1..Len(RecordKeys) |->
        <<RecordKeys[i],
          <<<<IntKey(0), Label(RecordKeys[i], 0)>>,
            <<IntKey(1), Label(RecordKeys[i], 1)>>>>>>]

\* A session exists.  Either its cache was built by the rebuild of its own
\* __init__ (lines 100-111), whose exchanges made the Serial object of the
\* session and left it closed, or the program started with the _map.json of
\* an earlier rebuild, loaded it (lines 63-66) and __init__ left it alone:
\* that session has no Serial object yet.
InitRecords ==
    /\ InitCallers
    /\ NoDecoder
    /\ map_json = [exists |-> TRUE, doc |-> write_json(BuiltMap)]
    /\ \E built \in BOOLEAN :
          /\ device = IF built THEN 1 ELSE 0
          /\ isOpen = IF built THEN <<FALSE>> ELSE <<>>
          /\ _map = IF built THEN BuiltMap ELSE load_json(map_json.doc)
          /\ written = IF built THEN BuiltMap ELSE <<>>
          /\ op = [Idle EXCEPT !.kind = "__init__", !.stage = "ok",
                               !.rebuild = built, !.wrote = built]
    /\ alive = TRUE

\* val in range(start, stop), val an integer.
InRange(val, start, stop) == start <= val /\ val < stop

\* The values the setter is given.
DbmVals == {0, 1, 1998, 1999, 2000}

\* The custom_decibel_meter_reference setter, lines 713-719: the test against
\* range(1, 1999), then the command.
custom_decibel_meter_reference(val) ==
    /\ Free
    /\ alive
    /\ IF ~InRange(val, 1, 1999)
       THEN /\ op' = [Idle EXCEPT
                         !.kind = "custom_decibel_meter_reference",
                         !.stage = "failed", !.num = val,
                         !.res = Raised("ValueError",
                            "Error setting custom_decibel_meter_reference")]
            /\ NoCommand
       ELSE /\ op' = [Idle EXCEPT
                         !.kind = "custom_decibel_meter_reference",
                         !.stage = "busy", !.num = val]
            /\ Command(Str(Txt(<<"M", "P", " ", "C", "U", "S", "D", "B", "M",
                                 ",", " ">>) \o str(val)))
    /\ UNCHANGED <<device, isOpen, opVarsKept, decoderVars>>

\* The keys of the dict QSLS returns, lines 1194-1197.
num_recording == Txt(<<"n", "u", "m", "_", "r", "e", "c", "o", "r", "d", "i", "n", "g">>)

num_minmax == Txt(<<"n", "u", "m", "_", "m", "i", "n", "m", "a", "x">>)

num_peak == Txt(<<"n", "u", "m", "_", "p", "e", "a", "k">>)

num_measurement == Txt(<<"n", "u", "m", "_", "m", "e", "a", "s", "u", "r", "e", "m", "e", "n", "t">>)

\* The key QSMR reads of that dict, line 1082.
nb_measurements == Txt(<<"n", "b", "_", "m", "e", "a", "s", "u", "r", "e", "m", "e", "n", "t", "s">>)

\* The key QSLS gives the number of saved measurements.
SlotsKey == nb_measurements

\* An outcome with a value of any kind.
Gave(v) == [kind |-> "return", exc |-> "", msg |-> "", payload |-> v]

\* QSLS, lines 1190-1197, on the outcome of _command: query() decodes, the
\* text is split at the commas and the first four fields go through int().
QSLSReply(res) ==
    IF res.kind = "raise" THEN res
    ELSE IF decode(res.payload).kind = "raise" THEN decode(res.payload)
    ELSE LET response == split(decode(res.payload).payload, Comma)
             keys == <<num_recording, num_minmax, num_peak, num_measurement>>
         IN IF \E i \in 1..4 :
                  /\ \A j \in 1..(i - 1) :
                        j <= Len(response) /\ int(response[j]).kind = "return"
                  /\ i > Len(response)
            THEN Raised("IndexError", "list index out of range")
            ELSE IF \E i \in 1..4 : int(response[i]).kind = "raise"
            THEN Raised("ValueError", "invalid literal for int() with base 10")
            ELSE Gave([i \in 1..4 |->
                         <<StrKey(keys[i]), int(response[i]).payload>>])

\* d[k] of a dict, or the KeyError.
Subscript(d, k) ==
    IF DictHas(d, k) THEN Gave(DictGet(d, k)) ELSE Raised("KeyError", "")

\* The command "QSMR idx", line 1089.
SavedCommand(idx) == Str(Txt(<<"Q", "S", "M", "R", " ">>) \o str(idx))

\* The indices QSMR is given.
SlotVals == {-1, 0, 3, 4}

\* What the device answers to QSLS: four counts, the last the number of saved
\* measurements; three counts; status "1".
CountResponses ==
    {<<Digit0, CR>> \o text \o <<CR>> :
        text \in {Join(<<Txt(<<"1">>), Txt(<<"2">>), Txt(<<"3">>), Txt(<<"4">>)>>),
                  Join(<<Txt(<<"0">>), Txt(<<"0">>), Txt(<<"0">>), Txt(<<"0">>)>>),
                  Join(<<Txt(<<"1">>), Txt(<<"2">>), Txt(<<"3">>)>>)}}
    \cup {<<Digit1, CR>>}

\* QSMR(idx), line 1082: QSLS is called first, and sends its query.
QSMR(idx) ==
    /\ Free
    /\ alive
    /\ op' = [Idle EXCEPT !.kind = "QSMR", !.stage = "busy", !.num = idx,
                          !.phase = "QSLS",
                          !.asked = <<Txt(<<"Q", "S", "L", "S">>)>>]
    /\ Command(Str(Txt(<<"Q", "S", "L", "S">>)))
    /\ UNCHANGED <<device, isOpen, opVarsKept, decoderVars>>

\* s[start:stop], 0 <= start <= stop: the slice is cut at the end of s.
Slice(s, start, stop) ==
    LET n == Len(s)
        a == IF start > n THEN n ELSE start
        b == IF stop > n THEN n ELSE stop
    IN SubSeq(s, a + 1, b)

\* The exponent bits of a double, of its eight bytes the first the highest.
Exponent(d) == (d[1] % 128) * 16 + (d[2] \div 16)

\* The fraction bits of a double are all zero.
NoFraction(d) == d[2] % 16 = 0 /\ \A i \in 3..8 : d[i] = 0

\* The fraction bits of a double: the low half of the second byte, then the
\* six bytes after it.
Fraction(d) == <<d[2] % 16>> \o SubSeq(d, 3, 8)

\* The double is below zero.
Negative(d) == d[1] >= 128

\* a is not after b, byte by byte from the highest.
RECURSIVE AtMost(_, _)
AtMost(a, b) ==
    IF a = <<>> THEN TRUE
    ELSE IF Head(a) # Head(b) THEN Head(a) < Head(b)
    ELSE AtMost(Tail(a), Tail(b))

\* The fraction bits of 67768036191676799, the last second of the year
\* 2147485547 (tm_year 2^31 - 1): the greatest time gmtime takes.
LastSecond == <<14, 24, 85, 111, 138, 149, 47>>

\* The fraction bits of -67768040609740800, the first second of the year
\* -2147481748 (tm_year -2^31): the least time gmtime takes.
FirstSecond == <<14, 24, 85, 144, 117, 95, 0>>

\* time.gmtime of a double, where time_t has 64 bits and tm_year 32.  Not a
\* number is refused (ValueError); a double that does not fit time_t, an
\* infinite one or one of magnitude 2^63 or more other than -2^63, overflows
\* (OverflowError); one whose year does not fit tm_year is refused by the C
\* library (OSError): both bounds have the exponent 55.  The struct_time is
\* kept as the double it was made of.
gmtime(x) ==
    IF x.kind = "raise" THEN x
    ELSE IF Exponent(x.val) = 2047 /\ ~NoFraction(x.val)
    THEN Error("ValueError")
    ELSE IF /\ Exponent(x.val) >= 1023 + 63
            /\ ~(Negative(x.val) /\ Exponent(x.val) = 1023 + 63
                    /\ NoFraction(x.val))
    THEN Error("OverflowError")
    ELSE IF \/ Exponent(x.val) >= 1023 + 56
            \/ /\ Exponent(x.val) = 1023 + 55
               /\ ~AtMost(Fraction(x.val),
                          IF Negative(x.val) THEN FirstSecond ELSE LastSecond)
    THEN Error("OSError")
    ELSE Value([epoch |-> x.val])

\* One field of a record being built: the outcome of a byte decoder.
Decoded(x) == [kind |-> x.kind, exc |-> x.exc, v |-> x.val]

\* One field of a record being built: the outcome of a lookup.
Looked(x) == [kind |-> x.kind, exc |-> x.exc, v |-> x.payload]

\* A variant of mpr that gives the raw code when the table does not have it.
mpr_or_code(res, map, key, offs) ==
    LET u == _read_u16(res, offs)
    IN IF ~DictHas(map, key) THEN Looked(Raised("KeyError", ""))
       ELSE IF u.kind = "raise" THEN Decoded(u)
       ELSE IF Resolve(map, key, u.val).kind = "raise" THEN Decoded(u)
       ELSE Looked(Resolve(map, key, u.val))

\* mpr, lines 979-980 (and 1092-1093, 1146-1147, 1528-1535):
\* self._map[key][str(_read_u16(res, offs))], evaluated from the left: the
\* table of key is taken from the cache first, then the u16 at offs of res is
\* read, then its text is looked up in the table.
mpr(res, map, key, offs) ==
    LET u == _read_u16(res, offs)
    IN IF ~DictHas(map, key) THEN Looked(Raised("KeyError", ""))
       ELSE IF u.kind = "raise" THEN Decoded(u)
       ELSE Looked(Resolve(map, key, u.val))

\* The fields of a dict display or of an object, evaluated in their order:
\* the first error leaves the method, otherwise the values are there.
Fields(fs) ==
    IF \E i \in 1..Len(fs) : fs[i].kind = "raise"
    THEN Raised(fs[CHOOSE i \in 1..Len(fs) :
                      /\ fs[i].kind = "raise"
                      /\ \A j \in 1..(i - 1) : fs[j].kind # "raise"].exc, "")
    ELSE Gave([i \in 1..Len(fs) |-> fs[i].v])

\* The object or dict made of the fields f, fields the values in their
\* order: the error of f, or what Made gives of the values.
Bind(f, Made(_)) == IF f.kind = "raise" THEN f ELSE Gave(Made(f.payload))

\* The attributes of a Reading made of binary data, lines 1524-1536.
BinaryReading(p) ==
    [reading_id |-> p[1],
     value |-> p[2],
     unit |-> p[3],
     unit_multiplier |-> p[4],
     decimal_places |-> p[5],
     display_digits |-> p[6],
     reading_state |-> p[7],
     reading_attribute |-> p[8],
     time_stamp |-> p[9]]

\* Reading("binary", data, map), lines 1518-1536, with the assertions on.
ReadingBinary(data, map) ==
    IF Len(data) # 30
    THEN Raised("AssertionError", "data is an incorrect length.")
    ELSE Bind(Fields(<<mpr(data, map, READINGID, 0),
                       Decoded(_read_double(data, 2)),
                       mpr(data, map, UNIT, 10),
                       Decoded(_read_i16(data, 12)),
                       Decoded(_read_u16(data, 14)),
                       Decoded(_read_u16(data, 16)),
                       mpr(data, map, STATE_, 18),
                       mpr(data, map, ATTRIBUTE, 20),
                       Decoded(gmtime(_read_double(data, 22)))>>),
              BinaryReading)

\* A list comprehension of constructors, rs their outcomes in order, as one
\* field of a record: the first error, or the list of the objects.
Listed(rs) ==
    IF \E i \in 1..Len(rs) : rs[i].kind = "raise"
    THEN [kind |-> "raise",
          exc |-> rs[CHOOSE i \in 1..Len(rs) :
                        /\ rs[i].kind = "raise"
                        /\ \A j \in 1..(i - 1) : rs[j].kind # "raise"].exc,
          v |-> <<>>]
    ELSE [kind |-> "return", exc |-> "",
          v |-> [i \in 1..Len(rs) |-> rs[i].payload]]

\* [val(i) for i in range(n)], val(i) the Reading of the 30 bytes of res from
\* first + 30 * i on: one field of the record.
Readings(res, map, first, n) ==
    Listed([i \in 1..n |->
               ReadingBinary(Slice(res, first + 30 * (i - 1),
                                   first + 30 * i), map)])

\* QDDB, line 974: the payload has the expected length.
SizeChecked(len, expected_length) == len = expected_length

\* The dict QDDB returns, lines 984-996.
DisplayDict(p) ==
    [primary_function |-> p[1],
     secondary_function |-> p[2],
     autorange |-> p[3],
     unit |-> p[4],
     range_max |-> p[5],
     unit_mult |-> p[6],
     bolt |-> p[7],
     tsval |-> p[8],
     mode |-> p[9],
     un1 |-> p[10],
     readings |-> p[11]]

\* QDDB, lines 972-996, the count of line 972 read.
DisplayCounted(res, map, num_readings) ==
    IF num_readings.kind = "raise" THEN Raised(num_readings.exc, "")
    ELSE IF ~SizeChecked(Len(res), num_readings.val * 30 + 34)
    THEN Raised("ValueError", "QDDB parse error")
    ELSE Bind(Fields(<<mpr(res, map, PRIMFUNCTION, 0),
                       mpr(res, map, SECFUNCTION, 2),
                       mpr(res, map, AUTORANGE, 4),
                       mpr(res, map, UNIT, 6),
                       Decoded(_read_double(res, 8)),
                       Decoded(_read_i16(res, 16)),
                       mpr(res, map, BOLT, 18),
                       Decoded(gmtime(_read_double(res, 20))),
                       mpr(res, map, MODE, 28),
                       Decoded(_read_u16(res, 30)),
                       Readings(res, map, 34, num_readings.val)>>),
              DisplayDict)

\* QDDB, lines 967-996, on the payload _command returned.
DisplayRecord(res, map) == DisplayCounted(res, map, _read_u16(res, 32))

\* The dict QRSI returns, lines 1149-1173.
RecordingDict(p) ==
    [sequence_number |-> p[1],
     start_time |-> p[3],
     end_time |-> p[4],
     sample_interval |-> p[5],
     event_threshold |-> p[6],
     reading_index |-> p[7],
     number_of_samples |-> p[9],
     primary_function |-> p[11],
     secondary_function |-> p[12],
     auto_range |-> p[13],
     unit |-> p[14],
     range_max |-> p[15],
     unit_multiplier |-> p[16],
     bolt |-> p[17],
     mode |-> p[22],
     un |-> <<p[2], p[8], p[10], p[18], p[19], p[20], p[21], p[23]>>]

\* QRSI, lines 1146-1173, on the payload _command returned.
RecordingRecord(res, map) ==
    Bind(Fields(<<Decoded(_read_u16(res, 0)),
                  Decoded(_read_u16(res, 2)),
                  Decoded(gmtime(_read_double(res, 4))),
                  Decoded(gmtime(_read_double(res, 12))),
                  Decoded(_read_double(res, 20)),
                  Decoded(_read_double(res, 28)),
                  Decoded(_read_u16(res, 36)),
                  Decoded(_read_u16(res, 38)),
                  Decoded(_read_u16(res, 40)),
                  Decoded(_read_u16(res, 42)),
                  mpr(res, map, PRIMFUNCTION, 44),
                  mpr(res, map, SECFUNCTION, 46),
                  mpr(res, map, AUTORANGE, 48),
                  mpr(res, map, UNIT, 50),
                  Decoded(_read_double(res, 52)),
                  Decoded(_read_i16(res, 60)),
                  mpr(res, map, BOLT, 62),
                  Decoded(_read_u16(res, 64)),
                  Decoded(_read_u16(res, 66)),
                  Decoded(_read_u16(res, 68)),
                  Decoded(_read_u16(res, 70)),
                  mpr(res, map, MODE, 72),
                  Decoded(_read_u16(res, 74))>>),
         RecordingDict)

\* The dict QSMR returns, lines 1101-1120.
SavedDict(p) ==
    [sequence_number |-> p[1],
     primary_function |-> p[3],
     secondary_function |-> p[4],
     auto_range |-> p[5],
     unit |-> p[6],
     range_max |-> p[7],
     unit_multiplier |-> p[8],
     bolt |-> p[9],
     mode |-> p[14],
     num_measurements |-> p[16],
     measurements |-> p[17],
     name |-> p[18],
     un |-> <<p[2], p[10], p[11], p[12], p[13], p[15]>>]

\* QSMR, lines 1092-1120, the count of line 1098 read.
SavedCounted(res, map, num_measurements) ==
    IF num_measurements.kind = "raise"
    THEN Raised(num_measurements.exc, "")
    ELSE Bind(Fields(<<Decoded(_read_u16(res, 0)),
                       Decoded(_read_u16(res, 2)),
                       mpr(res, map, PRIMFUNCTION, 4),
                       mpr(res, map, SECFUNCTION, 6),
                       mpr(res, map, AUTORANGE, 8),
                       mpr(res, map, UNIT, 10),
                       Decoded(_read_double(res, 12)),
                       Decoded(_read_i16(res, 20)),
                       mpr(res, map, BOLT, 22),
                       Decoded(_read_u16(res, 24)),
                       Decoded(_read_u16(res, 26)),
                       Decoded(_read_u16(res, 28)),
                       Decoded(_read_u16(res, 30)),
                       mpr(res, map, MODE, 32),
                       Decoded(_read_u16(res, 34)),
                       Decoded(num_measurements),
                       Readings(res, map, 38, num_measurements.val),
                       Looked(decode(Slice(res,
                                           38 + num_measurements.val * 30,
                                           Len(res))))>>),
              SavedDict)

\* QSMR, lines 1092-1120, on the payload _command returned.
SavedRecord(res, map) == SavedCounted(res, map, _read_u16(res, 36))

\* One field of a record being built: a value that is there.
Given(v) == [kind |-> "return", exc |-> "", v |-> v]

\* One field of a record being built: an error.
Failing(e) == [kind |-> "raise", exc |-> e, v |-> <<>>]

\* s[i] of a list, i >= 0, or the IndexError.
Item(s, i) == IF i < Len(s) THEN Given(s[i + 1]) ELSE Failing("IndexError")

\* A text of decimal digits, at least one.
IsDigits(x) == x # <<>> /\ \A i \in 1..Len(x) : IsDigit(x[i])

\* A text without the sign it starts with, if it starts with one.
Unsigned(x) == IF x # <<>> /\ x[1] \in {43, 45} THEN Tail(x) ELSE x

\* Where the first e or E of d is, from 1; Len(d) + 1 if there is none.
ExponentAt(d) ==
    IF \E i \in 1..Len(d) : d[i] \in {69, 101}
    THEN CHOOSE i \in 1..Len(d) :
            /\ d[i] \in {69, 101}
            /\ \A j \in 1..(i - 1) : d[j] \notin {69, 101}
    ELSE Len(d) + 1

\* Digits with at most one point among them, and after an e digits.
WellFormed(mantissa, hasE, power) ==
    /\ \A i \in 1..Len(mantissa) : IsDigit(mantissa[i]) \/ mantissa[i] = 46
    /\ \E i \in 1..Len(mantissa) : IsDigit(mantissa[i])
    /\ Cardinality({i \in 1..Len(mantissa) : mantissa[i] = 46}) <= 1
    /\ hasE => IsDigits(power)

\* The float of the text x, d the text without its sign and e where its
\* exponent starts.
FloatParts(x, d, e) ==
    IF WellFormed(SubSeq(d, 1, e - 1), e <= Len(d),
                  Unsigned(SubSeq(d, e + 1, Len(d))))
    THEN Given([float |-> x])
    ELSE Failing("ValueError")

FloatUnsigned(x, d) == FloatParts(x, d, ExponentAt(d))

FloatStripped(x) == FloatUnsigned(x, Unsigned(x))

\* float(s) of a text of ASCII characters: white space around, a sign, digits
\* with at most one point among them, then possibly an exponent: e or E, a
\* sign, digits.  The words inf and nan and underscores between digits are
\* not among the texts of the model.  The float is kept as its text.
float(s) == FloatStripped(rstrip(lstrip(s)))

\* int(s) as a field of a record being built.
IntField(s) == Looked(int(s))

\* A field computed from an earlier one: the error of the earlier one first.
Then(x, y) == IF x.kind = "raise" THEN x ELSE y

\* The attributes of a RangeData, lines 1480-1483: the commas that end lines
\* 1480 and 1482 make auto_range and range_number tuples of one.
RangeAttributes(p) ==
    [auto_range |-> <<p[1]>>,
     base_unit |-> p[2],
     range_number |-> <<p[3]>>,
     unit_multiplier |-> p[4]]

\* RangeData(data), lines 1476-1485, with the assertions on.
RangeData(data) ==
    IF Len(data) # 4 THEN Failing("AssertionError")
    ELSE Looked(Bind(Fields(<<Given(data[1]), Given(data[2]),
                              IntField(data[3]), IntField(data[4])>>),
                     RangeAttributes))

\* Line 1506: the number of fields Reading("ascii", data) asserts.
ReadingSize == 8

\* gmtime(float(s)): of the texts of the model only a time of digits and a
\* point is in the range of gmtime.
gmtime_text(x) ==
    IF x.kind = "raise" THEN x
    ELSE IF \A i \in 1..Len(x.v.float) :
                IsDigit(x.v.float[i]) \/ x.v.float[i] = 46
    THEN Given([epoch |-> x.v.float])
    ELSE Failing("OverflowError")

\* The attributes of a Reading made of texts, lines 1508-1516.
AsciiReading(p) ==
    [id |-> p[1],
     value |-> p[2],
     unit |-> p[3],
     unit_multiplier |-> p[4],
     decimal_places |-> p[5],
     displayed_digits |-> p[6],
     reading_state |-> p[7],
     reading_attribute |-> p[8],
     time_stamp |-> p[9]]

\* Reading("ascii", data), lines 1501-1516, with the assertions on: data is
\* a list of texts.
ReadingAscii(data) ==
    IF Len(data) # ReadingSize
    THEN Raised("AssertionError", "data is an incorrect length.")
    ELSE Bind(Fields(<<Item(data, 0),
                       Then(Item(data, 1), float(data[2])),
                       Item(data, 2),
                       Then(Item(data, 3), IntField(data[4])),
                       Then(Item(data, 4), IntField(data[5])),
                       Then(Item(data, 5), IntField(data[6])),
                       Item(data, 6),
                       Item(data, 7),
                       Then(Item(data, 8), gmtime_text(float(data[9])))>>),
              AsciiReading)

\* [Reading("ascii", out[i*9:(i+1)*9]) for i in range(n)], lines 957-959.
AsciiReadings(fields, n) ==
    Listed([i \in 1..n |-> ReadingAscii(Slice(fields, 9 * (i - 1), 9 * i))])

\* out[start:], start of either sign.
SliceFrom(s, start) ==
    Slice(s, IF start >= 0 THEN start
             ELSE IF Len(s) + start < 0 THEN 0 ELSE Len(s) + start, Len(s))

\* The dict QDDA returns, lines 932-959.
AsciiDict(p) ==
    [primary_function |-> p[1],
     secondary_function |-> p[2],
     range_data |-> p[3],
     lightning_bolt |-> p[4],
     min_max_start_time |-> p[5],
     number_of_modes |-> p[6],
     modes |-> p[7],
     number_of_readings |-> p[8],
     readings |-> p[9]]

\* Line 943: [out[i] for i in range(m)].
Modes(fields, m) ==
    IF m > Len(fields) THEN Failing("IndexError")
    ELSE Given(IF m <= 0 THEN <<>> ELSE SubSeq(fields, 1, m))

\* Lines 949-959, the number of readings read: the readings of the fields
\* after it.
DisplayReadings(fields, number_of_readings) ==
    <<number_of_readings,
      Then(number_of_readings,
           AsciiReadings(SliceFrom(fields, 1), number_of_readings.v))>>

\* Lines 949-959: the number of readings is the first of the fields left.
DisplayCount(fields) ==
    DisplayReadings(fields, Then(Item(fields, 0), IntField(fields[1])))

\* Lines 940-959, h the values of lines 932-937 and fields those after them.
DisplayModes(h, fields) ==
    Bind(Fields(<<Given(h[1]), Given(h[2]), Given(h[3]), Given(h[4]),
                  Given(h[5]), Given(h[6]), Modes(fields, h[6])>>
                \o DisplayCount(SliceFrom(fields, h[6]))),
         AsciiDict)

\* Lines 932-959, head the outcome of lines 932-937.
DisplayHead(fields, head) ==
    IF head.kind = "raise" THEN head
    ELSE DisplayModes(head.payload, SliceFrom(fields, 9))

\* Lines 932-959 on the fields of the response.
DisplayFields(fields) ==
    DisplayHead(fields,
                Fields(<<Item(fields, 0),
                         Item(fields, 1),
                         RangeData(Slice(fields, 2, 6)),
                         Item(fields, 6),
                         Then(Item(fields, 7), float(fields[8])),
                         Then(Item(fields, 8), IntField(fields[9]))>>))

\* QDDA, lines 921-960, on the text query() returned.
DisplayText(text) == DisplayFields(split(text, Comma))

\* query(), on the outcome of _command: the payload is decoded.
Queried(res) == IF res.kind = "raise" THEN res ELSE decode(res.payload)

\* DisplayText of the outcome of query().
DisplayQueried(q) ==
    IF q.kind = "raise" THEN q ELSE DisplayText(q.payload)

\* QDDA on the outcome of _command.
DisplayReply(res) == DisplayQueried(Queried(res))

\* n bytes of zero.
Zeros(n) == [i \in 1..n |-> 0]

\* The bytes s with the byte b at off, off from 0: a u16 below 256 at off.
Put(s, off, b) == [s EXCEPT ![off + 1] = b]

\* The most Readings a crafted payload declares.
MaxReadings == 2

\* The 30 bytes of the i-th Reading of a payload, i from 1: the code of its
\* reading id, and i as its decimal places.
Block(i, code) == Put(Put(Zeros(30), 0, code), 14, i)

\* The 30 bytes of each of n Readings, one after the other.
RECURSIVE Blocks(_, _)
Blocks(n, code) ==
    IF n = 0 THEN <<>> ELSE Blocks(n - 1, code) \o Block(n, code)

\* A payload cut or extended at its end: one byte less, as it is, or one
\* byte more.
Resized(s, delta) ==
    IF delta < 0 THEN SubSeq(s, 1, Len(s) - 1)
    ELSE IF delta > 0 THEN s \o <<7>>
    ELSE s

\* The payloads the device answers QDDB with: a header of 34 bytes with the
\* code of the unit and the count c at 32, c blocks of 30 bytes, the whole
\* of the declared length or one byte off.
DisplayPayloads ==
    {Resized(Put(Put(Zeros(34), 6, code), 32, c) \o Blocks(c, rcode), delta) :
        c \in 0..MaxReadings, code \in {0, 2}, rcode \in {0, 2},
        delta \in {-1, 0, 1}}

\* The payloads the device answers QRSI with: 76 bytes with the code of the
\* unit at 50, or one byte off.
RecordingPayloads ==
    {Resized(Put(Zeros(76), 50, code), delta) :
        code \in {0, 2}, delta \in {-1, 0, 1}}

\* The names a saved measurement has: none, "AB", a byte that is not UTF-8.
NameBytes == {<<>>, <<65, 66>>, <<255>>}

\* The payloads the device answers "QSMR idx" with: a header of 38 bytes
\* with the code of the unit at 10 and the count c at 36, c blocks of 30
\* bytes and a name; or the same cut short of the last byte of the blocks.
SavedPayloads ==
    {Put(Put(Zeros(38), 10, code), 36, c) \o Blocks(c, rcode) \o name :
        c \in 0..MaxReadings, code \in {0, 2}, rcode \in {0, 2},
        name \in NameBytes}
    \cup {Resized(Put(Zeros(38), 36, c) \o Blocks(c, 0), -1) :
             c \in 1..MaxReadings}

\* What the device sends for a binary payload: status "0", "#0", the bytes.
Binary(payload) == <<Digit0, CR, Hash, Digit0>> \o payload \o <<CR>>

\* The nine fields of the i-th reading of an ASCII display.
Group(i) ==
    <<Txt(<<"L", "I", "V", "E">>), Txt(<<"1", ".", "5">>), Txt(<<"V">>),
      Txt(<<"0">>), str(i), Txt(<<"4">>), Txt(<<"N">>), Txt(<<"X">>),
      Txt(<<"2", ".", "0">>)>>

\* The fields of r readings.
RECURSIVE Groups(_)
Groups(r) == IF r = 0 THEN <<>> ELSE Groups(r - 1) \o Group(r)

\* The text of an ASCII display of one mode and r readings: the two
\* functions, the four fields of the range, the bolt, a time, the modes, the
\* number of readings and the readings.
DisplayTextOf(r) ==
    Join(<<Txt(<<"V">>), Txt(<<"N">>),
           Txt(<<"A">>), Txt(<<"V">>), Txt(<<"5">>), Txt(<<"0">>),
           Txt(<<"O", "F", "F">>), Txt(<<"0", ".", "0">>),
           Txt(<<"1">>), Txt(<<"M">>), str(r)>> \o Groups(r))

\* What the device answers QDDA with: a display of 0 to MaxReadings
\* readings, a text without a field for the range, status "1".
DisplayTexts ==
    {<<Digit0, CR>> \o DisplayTextOf(r) \o <<CR>> : r \in 0..MaxReadings}
    \cup {<<Digit0, CR>> \o Join(<<Txt(<<"V">>), Txt(<<"N">>)>>) \o <<CR>>}
    \cup {<<Digit1, CR>>}

\* "{:02d}".format(n): the decimal text of n, zeros before it up to two
\* characters, after the sign if there is one.
Format02d(n) ==
    IF Len(str(n)) >= 2 THEN str(n) ELSE <<Digit0>> \o str(n)

\* QDDB, line 967: the query is sent.
QDDB ==
    /\ Free
    /\ alive
    /\ op' = [Idle EXCEPT !.kind = "QDDB", !.stage = "busy"]
    /\ Command(Str(Txt(<<"Q", "D", "D", "B">>)))
    /\ UNCHANGED <<device, isOpen, opVarsKept, decoderVars>>

\* A record query returns or raises r: the outcome of the operation, and the
\* payload _command gave it.
Concluded(r) ==
    op' = [op EXCEPT !.stage = Ended(r), !.res = r,
                     !.phase = result[1].kind,
                     !.payload = result[1].payload]

\* QDDB, lines 967-996, once _command has ended.
QDDBReturn ==
    /\ op.kind = "QDDB" /\ op.stage = "busy" /\ pc[1] = "done"
    /\ Concluded(IF result[1].kind = "raise" THEN result[1]
              ELSE DisplayRecord(result[1].payload, _map))
    /\ Returns
    /\ UNCHANGED <<opVarsKept, decoderVars>>

\* QRSI(recording_number), lines 1141-1144: None is recording 0; the query
\* is sent.
QRSI(given, recording_number) ==
    /\ Free
    /\ alive
    /\ LET n == IF given THEN recording_number ELSE 0
       IN /\ op' = [Idle EXCEPT !.kind = "QRSI", !.stage = "busy", !.num = n]
          /\ Command(Str(Txt(<<"Q", "R", "S", "I", " ">>) \o Format02d(n)))
    /\ UNCHANGED <<device, isOpen, opVarsKept, decoderVars>>

\* QRSI, lines 1146-1173, once _command has ended.
QRSIReturn ==
    /\ op.kind = "QRSI" /\ op.stage = "busy" /\ pc[1] = "done"
    /\ Concluded(IF result[1].kind = "raise" THEN result[1]
              ELSE RecordingRecord(result[1].payload, _map))
    /\ Returns
    /\ UNCHANGED <<opVarsKept, decoderVars>>

\* QDDA, line 921: the query is sent.
QDDA ==
    /\ Free
    /\ alive
    /\ op' = [Idle EXCEPT !.kind = "QDDA", !.stage = "busy"]
    /\ Command(Str(Txt(<<"Q", "D", "D", "A">>)))
    /\ UNCHANGED <<device, isOpen, opVarsKept, decoderVars>>

\* QDDA, lines 921-960, once _command has ended.
QDDAReturn ==
    /\ op.kind = "QDDA" /\ op.stage = "busy" /\ pc[1] = "done"
    /\ Concluded(DisplayReply(result[1]))
    /\ Returns
    /\ UNCHANGED <<opVarsKept, decoderVars>>

\* The setter returns None once _command has ended, line 719.
CustomReturn ==
    /\ op.kind = "custom_decibel_meter_reference"
    /\ op.stage = "busy" /\ pc[1] = "done"
    /\ LET r == IF result[1].kind = "raise" THEN result[1]
                ELSE Returned(<<>>)
       IN op' = [op EXCEPT !.stage = Ended(r), !.res = r]
    /\ Returns
    /\ UNCHANGED <<opVarsKept, decoderVars>>

\* Line 1082: QSLS()[key], counts the outcome of QSLS.
Slots(counts) ==
    IF counts.kind = "raise" THEN counts
    ELSE Subscript(counts.payload, StrKey(SlotsKey))

\* QSMR, lines 1082-1089, slots the outcome of line 1082 before the
\* subtraction: idx is tested against the last slot, and "QSMR idx" is sent.
QSMRCounted(slots) ==
    IF slots.kind = "raise"
    THEN /\ op' = [op EXCEPT !.stage = "failed", !.res = slots]
         /\ Returns
    ELSE IF op.num < 0 \/ op.num > slots.payload - 1
    THEN /\ op' = [op EXCEPT !.stage = "failed", !.val = slots.payload - 1,
                             !.res = Raised("ValueError", "last valid slot")]
         /\ Returns
    ELSE /\ op' = [op EXCEPT !.phase = "QSMR", !.val = slots.payload - 1,
                             !.asked = Append(@, SavedCommand(op.num).data)]
         /\ Command(SavedCommand(op.num))
         /\ UNCHANGED <<device, isOpen>>

\* QSMR, lines 1082-1120, once a _command has ended: after the query of
\* QSLS the counts are parsed and subscripted, after "QSMR idx" the payload
\* is parsed.
QSMRReturn ==
    /\ op.kind = "QSMR" /\ op.stage = "busy" /\ pc[1] = "done"
    /\ IF op.phase = "QSLS"
       THEN QSMRCounted(Slots(QSLSReply(result[1])))
       ELSE /\ Concluded(IF result[1].kind = "raise" THEN result[1]
                      ELSE SavedRecord(result[1].payload, _map))
            /\ Returns
    /\ UNCHANGED <<opVarsKept, decoderVars>>

\* The parse step of QSMR has ended with r on the payload res.
Parsed(res, r) ==
    op' = [Idle EXCEPT !.kind = "SavedParse", !.stage = Ended(r),
                       !.phase = "return", !.payload = res, !.res = r]

\* The parse step of QSMR, lines 1092-1120, on a payload res.
SavedParse(res) ==
    /\ Free
    /\ alive
    /\ Parsed(res, SavedRecord(res, _map))
    /\ NoCommand
    /\ UNCHANGED <<device, isOpen, opVarsKept, decoderVars>>

\* The answers to the command of the record query in progress.
RecordAnswers ==
    IF op.kind = "QDDB" THEN {Binary(b) : b \in DisplayPayloads}
                             \cup {<<Digit1, CR>>}
    ELSE IF op.kind = "QRSI" THEN {Binary(b) : b \in RecordingPayloads}
                                  \cup {<<Digit1, CR>>}
    ELSE IF op.kind = "QDDA" THEN DisplayTexts
    ELSE IF op.kind = "QSMR" /\ op.phase = "QSLS" THEN CountResponses
    ELSE IF op.kind = "QSMR" THEN {Binary(b) : b \in SavedPayloads}
    ELSE AckResponses

NextRecords ==
    \/ \E val \in DbmVals : custom_decibel_meter_reference(val)
    \/ CustomReturn
    \/ \E idx \in SlotVals : QSMR(idx)
    \/ QSMRReturn
    \/ \E res \in SavedPayloads : SavedParse(res)
    \/ QDDB
    \/ QDDBReturn
    \/ \E given \in BOOLEAN, n \in {0, 12} : QRSI(given, n)
    \/ QRSIReturn
    \/ QDDA
    \/ QDDAReturn
    \/ EnterTest(1)
    \/ EnterCreate(1)
    \/ EnterOpen(1)
    \/ EnterReturn(1)
    \/ Write(1)
    \/ Read(1, RecordAnswers)
    \/ __exit__(1)
    \/ Leave(1)

SpecRecords == InitRecords /\ [][NextRecords]_vars

-----------------------------------------------------------------------------
(* Properties of the exchange. *)

Has(events, ev) == \E i \in 1..Len(events) : events[i] = ev

Count(events, ev) == Cardinality({i \in 1..Len(events) : events[i] = ev})

\* Caller t's call has ended and its read returned a response.
Answered(t) == pc[t] = "done" /\ Has(log[t], "read")

\* Caller t has written its frame and has not read the response yet.
InFlight(t) == pc[t] \in {"sleep", "read"}

\* C1: the exchange classifies a response by its first byte only: '0' yields
\* a payload, '1' fails with a syntax error, '2' with an execution error, '5'
\* with a no-data error and every other first byte with an invalid-response
\* error, and no failing case returns a payload.
C1_StatusTable ==
    \A t \in Threads :
        Answered(t) =>
            LET r == resp[t]
                first == IF r = <<>> THEN -1 ELSE r[1]
            IN IF first = Digit0 THEN result[t].kind = "return"
               ELSE IF first = Digit1
                    THEN result[t] = Raised("IOError", "Syntax Error.")
               ELSE IF first = Digit2
                    THEN result[t] = Raised("IOError", "Execution error.")
               ELSE IF first = Digit5
                    THEN result[t] = Raised("IOError", "No data available.")
               ELSE result[t] = Raised("IOError", "Invalid Response.")

\* The part of C1 the code keeps: the table holds for every ASCII first byte
\* and for the empty response, and no failing case returns a payload.
C1_AsciiStatusTable ==
    \A t \in Threads :
        Answered(t) =>
            /\ (resp[t] = <<>> \/ resp[t][1] < 128) =>
                  result[t] = IF resp[t] # <<>> /\ resp[t][1] = Digit0
                              THEN Returned(result[t].payload)
                              ELSE Raised("IOError", StatusError(FirstByte(resp[t])))
            /\ (resp[t] # <<>> /\ resp[t][1] >= 128) =>
                  result[t].kind = "raise" /\ result[t].exc = "UnicodeDecodeError"

\* The bytes of a command: a string's UTF-8 encoding, a bytes object itself.
BytesOf(c) == IF c.kind = "str" THEN Utf8(c.data) ELSE c.data

\* C2: the frame written is the command's bytes followed by exactly one
\* carriage return when they do not end in one and the command's bytes
\* unchanged when they do; the string and the bytes form of a command give
\* the same frame, and encoding a frame again changes nothing.
C2_FrameWritten ==
    \A t \in Threads :
        InFlight(t) =>
            LET b == BytesOf(cmd[t])
                n == Len(b)
            IN /\ cmd[t].kind \in {"str", "bytes"}
               /\ sent[t] = IF n > 0 /\ b[n] = CR THEN b ELSE Append(b, CR)
               /\ EncodeCommand([kind |-> "bytes", data |-> b]) = Returned(sent[t])
               /\ EncodeCommand([kind |-> "bytes", data |-> sent[t]])
                     = Returned(sent[t])

\* C2's case: the string "é" went out as its two UTF-8 bytes and one
\* carriage return.
C2_Witness ==
    /\ InFlight(1)
    /\ cmd[1] = [kind |-> "str", data |-> <<233>>]
    /\ sent[1] = <<195, 169, CR>>

\* The payload C3 describes, by positions in the bytes after the status byte:
\* a leading CR goes, then a trailing CR, then a "#0" then at the front.
ExpectedPayload(rest) ==
    LET n == Len(rest)
        a == IF n >= 1 /\ rest[1] = CR THEN 1 ELSE 0
        b == IF n - a >= 1 /\ rest[n] = CR THEN 1 ELSE 0
        c == IF n - a - b >= 2 /\ rest[a + 1] = Hash /\ rest[a + 2] = Digit0
             THEN 2 ELSE 0
    IN SubSeq(rest, a + c + 1, n - b)

\* C3: for a response with status byte '0' the payload returned is the bytes
\* after the status byte less at most one leading carriage return, at most
\* one trailing carriage return and a "#0" that is then at the front; nothing
\* else is removed or altered.
C3_Payload ==
    \A t \in Threads :
        (Answered(t) /\ resp[t] # <<>> /\ resp[t][1] = Digit0) =>
            result[t] = Returned(ExpectedPayload(Tail(resp[t])))

\* C3's case: "0#0A\r" came back as "A".
C3_Witness ==
    /\ Answered(1)
    /\ resp[1] = <<Digit0, Hash, Digit0, 65, CR>>
    /\ result[1] = Returned(<<65>>)

\* C4 as claimed: stripping a returned payload a second time leaves it
\* unchanged.
C4_Idempotent ==
    \A t \in Threads :
        (Answered(t) /\ result[t].kind = "return") =>
            StripPayload(result[t].payload) = result[t].payload

\* C4, amended: stripping a returned payload a second time leaves it unchanged
\* exactly when the payload neither begins with a carriage return or "#0" nor
\* ends with a carriage return.
C4_StripAgain ==
    \A t \in Threads :
        (Answered(t) /\ result[t].kind = "return") =>
            LET p == result[t].payload
                n == Len(p)
            IN (StripPayload(p) = p) <=>
                  ~ \/ n >= 1 /\ p[1] = CR
                    \/ n >= 1 /\ p[n] = CR
                    \/ n >= 2 /\ p[1] = Hash /\ p[2] = Digit0

\* C4's case: "0\r\rA" came back as "\rA", which a second stripping shortens.
C4_Witness ==
    /\ Answered(1)
    /\ resp[1] = <<Digit0, CR, CR, 65>>
    /\ result[1] = Returned(<<CR, 65>>)
    /\ StripPayload(result[1].payload) = <<65>>

\* C5: when the read returns an empty buffer the exchange fails with the
\* invalid-response error and returns no payload, having written once and
\* read once.
C5_EmptyRead ==
    \A t \in Threads :
        (Has(log[t], "read") /\ resp[t] = <<>>) =>
            /\ pc[t] \in {"exit", "closed", "done"}
            /\ Count(log[t], "write") = 1
            /\ Count(log[t], "read") = 1
            /\ pc[t] = "done" =>
                  result[t] = Raised("IOError", "Invalid Response.")

\* C5's case: an exchange that read nothing has ended.
C5_Witness ==
    /\ Answered(1)
    /\ resp[1] = <<>>
    /\ result[1].kind = "raise"

\* C6: after an exchange that acquired the transport the serial device is
\* closed, however the exchange ended: by a return, by a failure of the write
\* or the read, or by a failure of the response's status.
C6_Released ==
    \A t \in Threads :
        (pc[t] = "done" /\ dev[t] # 0) =>
            /\ ~isOpen[dev[t]]
            /\ ~isOpen[device]
            /\ Count(log[t], "close") = 1
            /\ log[t][Len(log[t])] = "close"

\* C6's case: the write went out, the read failed, and the call has ended.
C6_Witness ==
    /\ pc[1] = "done"
    /\ dev[1] # 0
    /\ result[1].exc = "SerialException"
    /\ Has(log[1], "write")
    /\ ~Has(log[1], "read")

\* The positions of a caller between the end of __enter__ and the end of
\* __exit__.
Exchanging(t) == pc[t] \in {"opened", "write", "sleep", "read", "exit"}

\* C34: with the exchanges of a session one after another, failing ones
\* included, a Serial object is open only between the __enter__ and the
\* __exit__ of one exchange; an exchange starts with self._device None or
\* closed, and Serial.open() is never called on an open object.
C34_Lifecycle ==
    /\ \A d \in 1..Len(isOpen) : isOpen[d] => (d = device /\ Exchanging(1))
    /\ pc[1] \in {"idle", "enter", "create", "open", "closed", "done"}
           => (device = 0 \/ ~isOpen[device])
    /\ pc[1] = "create" => device = 0
    /\ result[1] # Raised("SerialException", "Port is already open.")
    /\ result[1] # Raised("ConnectionError", "Failed to close device.")

\* A later exchange of the session is about to call Serial.open(): the
\* object an earlier exchange made is there, closed.
C34_Witness ==
    /\ pc[1] = "open"
    /\ device # 0
    /\ ~isOpen[device]

\* C7: with two exchanges started on one session, no caller writes while the
\* other is between its write and its read (so the two are never both there),
\* and no caller closes the transport the other is using between its write
\* and its read.
C7_OneInFlight ==
    /\ ~ \E t, u \in Threads : t # u /\ InFlight(t) /\ InFlight(u)
    /\ \A t \in Threads : InFlight(t) => isOpen[dev[t]]

\* What protection the code does give: a caller that finds the session's
\* Serial object open fails in __enter__ and touches nothing.
C7_SecondOpenFails ==
    \A t \in Threads :
        (pc[t] = "done" /\ result[t].msg = "Port is already open.") =>
            log[t] = <<>> /\ dev[t] = 0

\* C8: a call writes at most once and reads at most once, whatever the status
\* of the response; a failed exchange ends the call with the failure and the
\* command is not sent again.
C8_NoRetry ==
    \A t \in Threads :
        /\ Count(log[t], "write") <= 1
        /\ Count(log[t], "read") <= 1
        /\ Has(log[t], "read") => Has(log[t], "write")
        /\ result[t].kind = "raise" => pc[t] = "done"

\* C8's case: the device answered with a failing status and the call ended
\* after one write and one read.
C8_Witness ==
    /\ Answered(1)
    /\ result[1] = Raised("IOError", "Execution error.")
    /\ Count(log[1], "write") = 1
    /\ Count(log[1], "read") = 1

-----------------------------------------------------------------------------
(* Properties of the byte decoders. *)

\* The two bytes at offset and offset + 1 exist.
Window16 == offset >= 0 /\ offset + 2 <= Len(buf)

\* C9: for every buffer and every offset >= 0 with offset + 2 <= length,
\* offset 0 included, read_u16 returns buf[offset] + 256 * buf[offset + 1].
C9_ReadU16 ==
    (fn = "_read_u16" /\ Window16) =>
        out = Value(At(buf, offset) + 256 * At(buf, offset + 1))

\* C9's case: offset 0, where the slice has no stop.
C9_Witness ==
    /\ fn = "_read_u16"
    /\ offset = 0
    /\ buf = <<1, 128, 255>>
    /\ out = Value(32769)

\* The little-endian 16-bit two's-complement encoding of x.
Enc16(x) ==
    LET u == IF x < 0 THEN x + 65536 ELSE x
    IN <<u % 256, u \div 256>>

\* C10: read_i16 of the little-endian two's-complement encoding of x, at any
\* valid offset, is x, for x in -32768..32767; it is read_u16 below 0x8000
\* and read_u16 - 0x10000 from 0x8000 on.
C10_ReadI16 ==
    (fn = "_read_i16" /\ Window16) =>
        LET u == _read_u16(buf, offset).val
        IN /\ out.kind = "return"
           /\ out.val \in -32768..32767
           /\ Enc16(out.val) = <<At(buf, offset), At(buf, offset + 1)>>
           /\ out.val = IF u < 32768 THEN u ELSE u - 65536

\* C10, for every x: the code reads every two-byte buffer at offset 0, and
\* the buffers Enc16(x), x in -32768..32767, are all of them.
\* C10's case: the encoding 00 80 of -32768, the least value, at offset 1.
C10_Witness ==
    /\ fn = "_read_i16"
    /\ offset = 1
    /\ buf = <<255, 0, 128>>
    /\ out = Value(-32768)

\* The eight bytes at offset .. offset + 7 exist.
Window64 == offset >= 0 /\ offset + 8 <= Len(buf)

\* C11: for every offset >= 0 (0 included) with offset + 8 <= length, the
\* eight bytes read_double hands to the big-endian IEEE-754 interpretation
\* are buf[offset + 3], [offset + 2], [offset + 1], [offset], [offset + 7],
\* [offset + 6], [offset + 5], [offset + 4], in that order: each 4-byte half
\* is reversed on its own.
C11_ReadDouble ==
    (fn = "_read_double" /\ Window64) =>
        out = Value(<<At(buf, offset + 3), At(buf, offset + 2),
                      At(buf, offset + 1), At(buf, offset),
                      At(buf, offset + 7), At(buf, offset + 6),
                      At(buf, offset + 5), At(buf, offset + 4)>>)

\* C11's case: offset 0, where the slice of the low half has no stop, on a
\* buffer of distinct bytes.
C11_Witness ==
    /\ fn = "_read_double"
    /\ offset = 0
    /\ buf = <<1, 8, 15, 22, 29, 36, 43, 50>>
    /\ out = Value(<<22, 15, 8, 1, 50, 43, 36, 29>>)

\* The number of bytes each decoder reads.
Width == [_read_u16 |-> 2, _read_i16 |-> 2, _read_double |-> 8]

\* C12: for every offset >= 0, read_u16, read_i16 and read_double fail with
\* an error, and return no value built from fewer or other bytes, whenever
\* offset + width exceeds the length of the buffer.
C12_OutOfRange ==
    (fn # "" /\ offset >= 0 /\ offset + Width[fn] > Len(buf)) =>
        out.kind = "raise"

\* C12's case: read_double of a buffer one byte short of the window at
\* offset 2.
C12_Witness ==
    /\ fn = "_read_double"
    /\ offset = 2
    /\ Len(buf) = 9
    /\ out = Error("struct.error")

-----------------------------------------------------------------------------
(* Properties of the vocabulary. *)

\* A QEMAP, called by a caller or by __init__, that _command has answered is
\* about to return or fail.
QEMAPEnds ==
    /\ op.kind \in {"QEMAP", "__init__"}
    /\ op.stage = "busy"
    /\ pc[1] = "done"

\* _command returned a payload that decodes and whose first field is a
\* number: the count.
Counted ==
    /\ QEMAPEnds
    /\ result[1].kind = "return"
    /\ decode(result[1].payload).kind = "return"
    /\ int(Head(split(decode(result[1].payload).payload, Comma))).kind
           = "return"

AnswerCount == int(Head(split(decode(result[1].payload).payload, Comma))).payload

\* The fields after the count.
AnswerRest == Tail(split(decode(result[1].payload).payload, Comma))

\* count pairs follow the count.
Paired == Len(AnswerRest) = 2 * AnswerCount

\* The code of every pair is a number.
Coded == \A i \in 1..AnswerCount : int(AnswerRest[2 * i - 1]).kind = "return"

AnswerCode(i) == int(AnswerRest[2 * i - 1]).payload

AnswerLabel(i) == AnswerRest[2 * i]

Names(map) == {map[i][1] : i \in 1..Len(map)}

\* The entries of every name but the one queried are what they were, and the
\* name queried has one entry.
OthersKept ==
    /\ Cardinality({i \in 1..Len(_map') : _map'[i][1] = op.name}) = 1
    /\ Names(_map') = Names(_map) \cup {op.name}
    /\ \A n \in Names(_map) \ {op.name} : DictGet(_map', n) = DictGet(_map, n)

\* The QEMAP fails with the error of a count that differs from the pairs,
\* and stores nothing.
Malformed ==
    /\ op'.stage = "failed"
    /\ op'.res = Raised("ValueError", "Error parsing QEMAP")
    /\ _map' = _map

\* C13 as stated: on a response count,(code,label)*count QEMAP stores under
\* the name a table of exactly the count pairs of the response, replaces the
\* entry the name had and leaves the entries of the other names unchanged;
\* when the number of fields after the count is not 2 * count it fails with
\* the malformed-vocabulary error.
C13_ExactPairs ==
    [][Counted =>
         IF ~Paired THEN Malformed
         ELSE Coded =>
              /\ OthersKept
              /\ Len(DictGet(_map', op.name)) = AnswerCount
              /\ \A i \in 1..AnswerCount :
                     <<IntKey(AnswerCode(i)), AnswerLabel(i)>>
                         \in Items(DictGet(_map', op.name))]_vars

\* C13, amended: the table stored has the codes of the response for keys and
\* maps each code to the label of its last pair in the response, which are
\* the count pairs of the response when no code is repeated.
C13_LastPairs ==
    [][Counted =>
         IF ~Paired THEN Malformed
         ELSE Coded =>
              /\ OthersKept
              /\ LET table == DictGet(_map', op.name)
                 IN /\ {table[j][1] : j \in 1..Len(table)}
                           = {IntKey(AnswerCode(i)) : i \in 1..AnswerCount}
                    /\ Len(table)
                           = Cardinality({AnswerCode(i) : i \in 1..AnswerCount})
                    /\ \A i \in 1..AnswerCount :
                           (\A j \in (i + 1)..AnswerCount :
                                AnswerCode(j) # AnswerCode(i))
                           => <<IntKey(AnswerCode(i)), AnswerLabel(i)>>
                                  \in Items(table)]_vars

\* C13's case: a QEMAP of BEEPER answered "2,0,OFF,1,ON" has replaced the
\* entry of BEEPER, next to the entry of UNIT.
C13_Witness ==
    /\ op.kind = "QEMAP" /\ op.stage = "ok" /\ op.name = BEEPER
    /\ _map = <<<<UNIT, <<<<IntKey(1), OFF>>>>>>,
                <<BEEPER, <<<<IntKey(0), OFF>>, <<IntKey(1), ON>>>>>>>>

\* C14: once a QEMAP of this run of the program has stored for a name a
\* table that maps code c to label l, a binary record parser that reads the
\* raw code c for a field of that table resolves it to l; the resolution
\* fails only if the name was never queried or the code is absent from the
\* table.
C14_Resolves ==
    op.kind = "lookup" =>
        /\ (/\ DictHas(_map, op.name)
            /\ DictHas(DictGet(_map, op.name), IntKey(op.num)))
           => op.res = Returned(DictGet(DictGet(_map, op.name),
                                        IntKey(op.num)))
        /\ op.stage = "failed" =>
               \/ ~DictHas(_map, op.name)
               \/ /\ ~DictHas(DictGet(_map, op.name), IntKey(op.num))
                  /\ ~DictHas(DictGet(_map, op.name), StrKey(str(op.num)))

\* _map_check raised: the setter failed with an error _command never raises
\* for its command.
ValidationFailed ==
    /\ op.stage = "failed"
    /\ op.res.exc \in {"ValueError", "IndexError", "KeyError"}

\* C15: _map_check of a value for a name succeeds if and only if the value is
\* one of the labels of the cached table of the name; otherwise it fails with
\* the invalid-setting error (ValueError) whose message lists every label of
\* the table, whatever the size of the table, one label and no label
\* included.
C15_Validate ==
    (op.kind = "beeper" /\ DictHas(_map, BEEPER)) =>
        LET labels == values(DictGet(_map, BEEPER))
            accepted == \E i \in 1..Len(labels) : labels[i] = op.val
        IN /\ accepted <=> ~ValidationFailed
           /\ ~accepted => /\ op.res.exc = "ValueError"
                           /\ op.res.payload = labels

\* The value the setter or press_button was given is one it accepts.
Accepted ==
    IF op.kind = "beeper"
    THEN /\ DictHas(_map, BEEPER)
         /\ \E i \in 1..Len(DictGet(_map, BEEPER)) :
                DictGet(_map, BEEPER)[i][2] = op.val
    ELSE IF op.kind = "auto_poweroff_timeout" THEN op.num \in PowerOffTimes
    ELSE \E i \in 1..Len(_buttons) : _buttons[i] = op.val

\* C16: a setter validated against a vocabulary table (beeper) or a fixed
\* list (auto_poweroff_timeout), and press_button, fail on a value that is
\* not accepted before the transport is opened and before a byte is written;
\* the transport is touched only after the value was accepted.
C16_RejectedSendsNothing ==
    op.kind \in {"beeper", "auto_poweroff_timeout", "press_button"} =>
        /\ ~Accepted => /\ op.stage = "failed"
                        /\ op.res.exc \in {"ValueError", "IndexError",
                                           "KeyError"}
                        /\ log[1] = <<>>
                        /\ sent[1] = <<>>
                        /\ pc[1] = "idle"
        /\ (log[1] # <<>> \/ pc[1] # "idle") => Accepted

\* C16's case: the beeper setter was given "MAYBE" where the table of BEEPER
\* has the labels OFF and ON, and failed with nothing opened or written.
C16_Witness ==
    /\ op.kind = "beeper" /\ op.val = MAYBE
    /\ DictHas(_map, BEEPER)
    /\ values(DictGet(_map, BEEPER)) = <<OFF, ON>>
    /\ op.stage = "failed"
    /\ op.res = Rejected(<<OFF, ON>>)
    /\ log[1] = <<>>

\* C17: __init__ rebuilds exactly when remap is set or the cache is empty.
\* A rebuild empties the cache and queries the names of _map_keys once each,
\* in their order, and writes _map.json only after every query succeeded;
\* otherwise __init__ makes no query, touches no transport and does not
\* write _map.json.
C17_Rebuild ==
    op.kind = "__init__" =>
        IF op.remap \/ ~op.hadCache
        THEN /\ Len(op.asked) >= 1
             /\ op.asked = SubSeq(_map_keys, 1, Len(op.asked))
             /\ op.stage = "ok" =>
                    /\ op.asked = _map_keys
                    /\ Names(_map) = {_map_keys[j] : j \in 1..Len(_map_keys)}
                    /\ op.wrote
                    /\ map_json = [exists |-> TRUE, doc |-> write_json(_map)]
             /\ op.stage # "ok" =>
                    /\ ~op.wrote
                    /\ Names(_map)
                           = {_map_keys[j] : j \in 1..(Len(op.asked) - 1)}
        ELSE /\ op.stage = "ok"
             /\ op.asked = <<>>
             /\ ~op.wrote
             /\ log[1] = <<>>
             /\ pc[1] = "idle"

\* C17's case: a rebuild was requested where the cache held both names, every
\* name was queried and the file written.
C17_Witness ==
    /\ op.kind = "__init__" /\ op.remap /\ op.hadCache
    /\ op.stage = "ok"
    /\ op.asked = <<UNIT, BEEPER>>
    /\ map_json.exists
    /\ map_json.doc = write_json(_map)

\* C18: the cache changes only when a QEMAP that succeeded stores its table
\* and when a rebuild empties it (and when the program, started again, loads
\* _map.json): no getter, setter, validation, lookup of a parser or failing
\* exchange changes a table.
C18_CacheFrame ==
    [][_map' # _map =>
         \/ QEMAPEnds /\ ParseReply(result[1]).kind = "return"
         \/ /\ Free
            /\ op'.kind = "__init__"
            /\ op'.remap \/ ~op'.hadCache
            /\ _map' = <<>>
         \/ Free /\ op'.kind = "import"]_vars

\* C18's case: a QEMAP failed and the cache holds the tables it held.
C18_Witness ==
    /\ op.kind = "QEMAP" /\ op.stage = "failed" /\ op.name = BEEPER
    /\ op.res = Raised("ValueError", "Error parsing QEMAP")
    /\ _map = <<<<UNIT, <<<<IntKey(1), OFF>>>>>>,
                <<BEEPER, <<<<IntKey(0), OFF>>, <<IntKey(1), ON>>>>>>>>

\* C36: a QEMAP that fails, with the error of the exchange, of a count that
\* differs from the fields, or of a count or a code that is no integer,
\* leaves the cache as it was before the query: the table the name had is
\* kept and nothing of the answer is stored.
C36_FailKeeps ==
    [][(QEMAPEnds /\ ParseReply(result[1]).kind = "raise")
          => /\ _map' = _map
             /\ op'.stage = "failed"
             /\ op'.res = ParseReply(result[1])]_vars

\* A QEMAP of a name the cache has a table for was answered with status "1"
\* and has failed; the table is there.
C36_Witness ==
    /\ op.kind = "QEMAP" /\ op.stage = "failed"
    /\ op.res = Raised("IOError", StatusError(<<Digit1>>))
    /\ DictHas(_map, op.name)
    /\ DictGet(_map, op.name) # <<>>

\* self._map, whichever session object self is: no method assigns the
\* attribute on an object, so every read (lines 98, 980, 1093, 1147, 1365)
\* finds the attribute of the class, line 63.
self_map == _map

\* A session object exists and another one is being constructed: __init__ is
\* entered, or a QEMAP that the __init__ of the new object called has ended.
ConstructsAnother ==
    /\ alive
    /\ \/ Free /\ op'.kind = "__init__"
       \/ op.kind = "__init__" /\ op.stage = "busy" /\ pc[1] = "done"

\* C37: the tables a constructed session resolves and validates against are
\* not changed and not emptied by the construction of another session
\* object, with remap or without, nor by the QEMAPs made through that other
\* object.
C37_Immutable == [][ConstructsAnother => self_map' = self_map]_vars

\* C35: when __init__ has completed, the cache holds a table for every name
\* of _map_keys, whatever constructions came before, a rebuild that failed
\* part-way followed by an __init__ without remap included.
C35_Complete ==
    (op.kind = "__init__" /\ op.stage = "ok") =>
        \A j \in 1..Len(_map_keys) : DictHas(_map, _map_keys[j])

\* C19: the cache read from _map.json when the program starts again equals
\* the cache that was written, name by name and key by key, the integer
\* codes still integer keys: a key is in a table read if and only if it was
\* in the table written, with the same label.
C19_RoundTrip ==
    (op.kind = "import" /\ map_json.exists) =>
        /\ Names(_map) = Names(written)
        /\ \A n \in Names(written) :
               Items(DictGet(_map, n)) = Items(DictGet(written, n))

-----------------------------------------------------------------------------
(* Properties of the chunked transfer. *)

RECURSIVE Sum(_)
Sum(lens) == IF lens = <<>> THEN 0 ELSE Head(lens) + Sum(Tail(lens))

\* QLCDBM has the whole buffer: every request it made was answered with a
\* chunk and the last chunk was not a full one.
Assembled ==
    /\ op.kind = "QLCDBM"
    /\ op.stage # "busy"
    /\ Len(op.chunks) = Len(op.offsets)

\* Each request's offset is the number of data bytes received before it.
Cumulative ==
    \A i \in 1..Len(op.offsets) :
        op.offsets[i] = Sum(SubSeq(op.chunks, 1, i - 1))

\* The offsets of the requests are strictly increasing.
Increasing ==
    \A i \in 2..Len(op.offsets) : op.offsets[i] > op.offsets[i - 1]

\* The assembled buffer is as long as the chunks together.
Summed == Assembled => Len(op.img) = Sum(op.chunks)

\* The device has answered as described: the chunk sizes `full` for the first
\* requests in turn, and a smaller chunk for the request after them.
Device(full) ==
    \A i \in 1..Len(op.chunks) :
        /\ i <= Len(full) => op.chunks[i] = full[i]
        /\ i = Len(full) + 1 => op.chunks[i] < full[Len(full)]
        /\ i <= Len(full) + 1

\* The offsets of four requests after three chunks of the sizes `full`.
FourOffsets(full) ==
    <<0, full[1], full[1] + full[2], full[1] + full[2] + full[3]>>

\* The sizes of three chunks of 1018 bytes: at the offsets 0, 1018, 2036.
Three1018 == <<FirstFull, FirstFull, FirstFull>>

\* The sizes of three full chunks: 1018 bytes at offset 0, then 1015 bytes at
\* the offsets 1018 and 2033.
ThreeFull == <<FirstFull, Fit4, Fit4>>

\* C20 as stated: against a device that returns 1018 data bytes at each of
\* the offsets 0, 1018 and 2036 and then a smaller chunk, QLCDBM makes exactly
\* 4 requests, each at the number of data bytes received so far, at strictly
\* increasing offsets, and the buffer is as long as the chunks together.
C20_Chunks1018 ==
    op.kind = "QLCDBM" =>
        /\ Cumulative
        /\ Increasing
        /\ Summed
        /\ (Assembled /\ Device(Three1018))
               => op.offsets = FourOffsets(Three1018)

\* C20, amended: against a device that returns a full chunk for each of three
\* consecutive requests (1018 data bytes at offset 0, 1015 at the offsets 1018
\* and 2033, a full chunk being 1020 bytes less the offset and a space) and
\* then a smaller chunk, QLCDBM makes exactly 4 requests, each at the number
\* of data bytes received so far, at strictly increasing offsets, and the
\* buffer is as long as the chunks together.
C20_FullChunks ==
    op.kind = "QLCDBM" =>
        /\ Cumulative
        /\ Increasing
        /\ Summed
        /\ (Assembled /\ Device(ThreeFull))
               => op.offsets = FourOffsets(ThreeFull)

\* Three full chunks and a chunk of 7 bytes were assembled after 4 requests.
C20_Witness ==
    /\ Assembled
    /\ op.chunks = ThreeFull \o <<7>>
    /\ Len(op.offsets) = 4
    /\ Len(op.img) = Sum(ThreeFull) + 7

\* The _command of a QLCDBM in progress has returned a payload.
ChunkReturned ==
    /\ op.kind = "QLCDBM"
    /\ op.stage = "busy"
    /\ pc[1] = "done"
    /\ result[1].kind = "return"

\* The data bytes of the payload once the "<offset> #0" prefix is stripped.
Stripped == Len(removeprefix(result[1].payload, ChunkPrefix(op.num)))

\* C21: after the request at an offset (offset 0 included) has returned n
\* data bytes once the "<offset> #0" prefix is stripped, another request is
\* made if and only if n is 1020 less the length of "<offset> ", and it is
\* made at the offset plus n; otherwise the transfer is complete and no
\* request follows.
C21_Continue ==
    [][ChunkReturned =>
           IF Stripped = Window - (Len(str(op.num)) + 1)
           THEN /\ op'.stage = "busy"
                /\ pc'[1] = "enter"
                /\ op'.offsets = Append(op.offsets, op.num + Stripped)
                /\ cmd'[1] = ChunkCommand(op.num + Stripped)
           ELSE /\ op'.stage # "busy"
                /\ pc'[1] = "idle"
                /\ op'.offsets = op.offsets]_vars

\* A full chunk at offset 0 was followed by a request at 1018, a full chunk
\* there by a request at 2033, and the chunk of 7 bytes there ended the
\* transfer.
C21_Witness ==
    /\ Assembled
    /\ op.offsets = <<0, FirstFull, FirstFull + Fit4>>
    /\ op.chunks = <<FirstFull, Fit4, 7>>

\* C22: within one transfer offset 0 is requested exactly once, as the first
\* request, every later request is at an offset strictly greater than the one
\* before it, and offset 0 is not requested again before the transfer ends,
\* a chunk of no data bytes included.
C22_Monotonic ==
    op.kind = "QLCDBM" =>
        /\ op.offsets[1] = 0
        /\ \A i \in 2..Len(op.offsets) :
               /\ op.offsets[i] > op.offsets[i - 1]
               /\ op.offsets[i] # 0

\* A transfer whose second chunk had no data bytes has ended after the
\* requests at 0 and 1018.
C22_Witness ==
    /\ Assembled
    /\ op.chunks = <<FirstFull, 0>>
    /\ op.offsets = <<0, FirstFull>>

\* A transfer is in progress.
Transferring == op.kind = "QLCDBM" /\ op.stage = "busy"

\* C31: a chunked transfer terminates.  Every continuation asks at a strictly
\* greater offset; a chunk whose stripped length is not the full one for its
\* offset (shorter, longer or empty) ends the loop with no further request;
\* and against a device that eventually returns such a chunk every transfer
\* in progress comes to its end.
C31_Terminates ==
    /\ [][(ChunkReturned /\ op'.stage = "busy")
              => (op'.num > op.num /\ Stripped = Full(op.num))]_vars
    /\ [][(ChunkReturned /\ Stripped # Full(op.num))
              => (op'.stage # "busy" /\ op'.offsets = op.offsets
                    /\ pc'[1] = "idle")]_vars
    /\ Transferring ~> ~Transferring

\* A transfer has ended at its third request or a later one, on a chunk that
\* was not a full one for its offset.
C31_Witness ==
    /\ Assembled
    /\ Len(op.offsets) >= 3
    /\ op.chunks[Len(op.chunks)] # Full(op.offsets[Len(op.offsets)])

\* The _command of a request made after a full chunk has ended.
AfterFull ==
    /\ Transferring
    /\ pc[1] = "done"
    /\ Len(op.offsets) >= 2

\* The data bytes of the device's answer to the request in progress.
DeviceData ==
    SubSeq(resp[1], Len(ChunkHead(op.num)) + 1, Len(resp[1]) - 1)

\* The device has answered the request in progress with a status other
\* than "0".
StatusRefused == resp[1] # <<>> /\ resp[1][1] # Digit0

\* C32: after a full chunk, the device's last one included, one further
\* request is made at the offset that is the number of bytes received; when
\* it returns status "0" and fewer data bytes than a full chunk, none
\* included, the loop ends and the whole of the bytes received goes to
\* decompress; when the device answers it with another status the transfer
\* fails with the status error of _command and no buffer goes to decompress.
C32_LastFull ==
    [][AfterFull =>
          /\ op.num = Len(op.img)
          /\ op.chunks[Len(op.chunks)]
                 = Full(op.offsets[Len(op.offsets) - 1])
          /\ op.offsets[Len(op.offsets)] = Len(op.img)
          /\ (result[1].kind = "return" /\ Stripped < Full(op.num))
                 => /\ op'.stage # "busy"
                    /\ op'.img = op.img \o DeviceData
                    /\ op'.res \in Opened(op'.img)
                    /\ op'.offsets = op.offsets
          /\ StatusRefused
                 => /\ op'.stage = "failed"
                    /\ op'.res = Raised("IOError", StatusError(<<resp[1][1]>>))
                    /\ op'.res \notin Opened(op.img)
                    /\ op'.img = op.img
                    /\ op'.offsets = op.offsets]_vars

\* The chunk at offset 0 was a full one and the device's last; the request at
\* 1018 was answered with status "1" and the transfer has failed with the
\* syntax error.
C32_Witness ==
    /\ op.kind = "QLCDBM"
    /\ op.stage = "failed"
    /\ op.offsets = <<0, FirstFull>>
    /\ op.chunks = <<FirstFull>>
    /\ Len(op.img) = FirstFull
    /\ op.res = Raised("IOError", StatusError(<<Digit1>>))

\* The data bytes of an answer that carries no terminator: all that follows
\* the status, the carriage return and the "<offset> #0" prefix.
RawDeviceData ==
    SubSeq(resp[1], Len(ChunkHead(op.num)) + 1, Len(resp[1]))

\* C33: against a device whose chunked answers carry no terminator, what
\* QLCDBM appends for an offset is exactly the data bytes sent after the
\* "<offset> #0" prefix, a last byte 0x0D included, and the continuation test
\* is made on the number of bytes sent.
C33_Exact ==
    [][ChunkReturned =>
          /\ op'.img = op.img \o RawDeviceData
          /\ Stripped = Len(RawDeviceData)
          /\ (op'.stage = "busy") <=> (Len(RawDeviceData) = Full(op.num))]_vars

-----------------------------------------------------------------------------
(* The order of the transport events of an exchange. *)

\* The events a, in their order, are among the events b, in their order.
RECURSIVE IsSubseq(_, _)
IsSubseq(a, b) ==
    IF a = <<>> THEN TRUE
    ELSE IF b = <<>> THEN FALSE
    ELSE IF Head(a) = Head(b) THEN IsSubseq(Tail(a), Tail(b))
    ELSE IsSubseq(a, Tail(b))

\* The exchange in progress, or the last one, is that of the command that
\* asks for the wait: QLCDBM's request at offset 0.
Delayed == op.kind = "QLCDBM" /\ Len(op.offsets) = 1

\* The events of a whole exchange.
WholeExchange ==
    IF Delayed THEN <<"open", "write", "sleep", "read", "close">>
    ELSE <<"open", "write", "read", "close">>

\* C28: the transport events of an exchange come in the order open, one write,
\* the wait if and only if the command asks for one, one read, close; the
\* wait happens once, between the write and the read, in the exchange of the
\* request at offset 0 and in no other, and an exchange that read a response
\* had all the events before the read.
C28_Order ==
    /\ IsSubseq(log[1], WholeExchange)
    /\ Has(log[1], "read") =>
           \E n \in 1..Len(log[1]) :
               /\ log[1][n] = "read"
               /\ SubSeq(log[1], 1, n) = SubSeq(WholeExchange, 1, n)
    /\ (pc[1] = "done" /\ result[1].kind = "return") =>
           log[1] = WholeExchange

\* The request at offset 1018 has been answered after an exchange without the
\* wait, the one at offset 0 before it having waited.
C28_Witness ==
    /\ op.kind = "QLCDBM"
    /\ op.offsets = <<0, FirstFull>>
    /\ pc[1] = "done"
    /\ result[1].kind = "return"
    /\ log[1] = <<"open", "write", "read", "close">>


-----------------------------------------------------------------------------
(* Properties of the record queries and of the setter, under SpecRecords. *)

\* A record query has ended and _command had given it a payload.
Parsing(kind) ==
    op.kind = kind /\ op.stage # "busy" /\ op.phase = "return"

\* The enum-valued fields of the QDDB header: table and offset.
DisplayEnums ==
    {<<PRIMFUNCTION, 0>>, <<SECFUNCTION, 2>>, <<AUTORANGE, 4>>, <<UNIT, 6>>,
     <<BOLT, 18>>, <<MODE, 28>>}

\* The enum-valued fields of the QRSI record.
RecordingEnums ==
    {<<PRIMFUNCTION, 44>>, <<SECFUNCTION, 46>>, <<AUTORANGE, 48>>,
     <<UNIT, 50>>, <<BOLT, 62>>, <<MODE, 72>>}

\* The enum-valued fields of the QSMR header.
SavedEnums ==
    {<<PRIMFUNCTION, 4>>, <<SECFUNCTION, 6>>, <<AUTORANGE, 8>>, <<UNIT, 10>>,
     <<BOLT, 22>>, <<MODE, 32>>}

\* The enum-valued fields of the c Readings of 30 bytes from first on.
ReadingEnums(first, c) ==
    {<<e[1], first + 30 * i + e[2]>> :
        e \in {<<READINGID, 0>>, <<UNIT, 10>>, <<STATE_, 18>>,
               <<ATTRIBUTE, 20>>},
        i \in 0..(c - 1)}

\* The enum-valued fields of the payload of the query that has ended.
Enums ==
    IF op.kind = "QDDB"
    THEN DisplayEnums \cup ReadingEnums(34, _read_u16(op.payload, 32).val)
    ELSE IF op.kind = "QRSI" THEN RecordingEnums
    ELSE SavedEnums \cup ReadingEnums(38, _read_u16(op.payload, 36).val)

\* The code of the field e of the payload is not in the table of the field.
Unknown(e) ==
    \/ ~DictHas(_map, e[1])
    \/ ~DictHas(DictGet(_map, e[1]),
                StrKey(str(_read_u16(op.payload, e[2]).val)))

\* The i-th Reading of a list is the one made of the 30 bytes of the payload
\* from first + 30 * i on, i from 0.
FromBlocks(readings, first, c) ==
    /\ Len(readings) = c
    /\ \A i \in 0..(c - 1) :
          /\ readings[i + 1].decimal_places =
                _read_u16(op.payload, first + 30 * i + 14).val
          /\ readings[i + 1].reading_id =
                DictGet(DictGet(_map, READINGID),
                        StrKey(str(_read_u16(op.payload, first + 30 * i).val)))

\* C23: a QDDB payload whose count field at 32 is c parses to exactly c
\* Readings, the i-th of the bytes [34+30i, 64+30i), when it is 34 + 30c
\* bytes long, and fails with the length error otherwise.
C23_Sized ==
    (Parsing("QDDB") /\ Len(op.payload) >= 34) =>
        LET c == _read_u16(op.payload, 32).val
        IN IF Len(op.payload) = 34 + 30 * c
           THEN /\ op.res.kind = "return"
                /\ FromBlocks(op.res.payload.readings, 34, c)
           ELSE /\ op.res.kind = "raise"
                /\ op.res.exc = "ValueError"
                /\ op.res.msg = "QDDB parse error"

\* C24: a QRSI payload that is not exactly 76 bytes long fails and no record
\* is returned.
C24_Exact ==
    (Parsing("QRSI") /\ Len(op.payload) # 76) => op.res.kind = "raise"

\* C25: the parse step of QSMR on a payload of L bytes whose count field at
\* 36 is c gives, when L >= 38 + 30c, exactly c Readings, the i-th of the
\* bytes [38+30i, 68+30i), and the name of the L - (38 + 30c) bytes after
\* them; when L < 38 + 30c it fails.
C25_Parse ==
    (Parsing("SavedParse") /\ Len(op.payload) >= 38) =>
        LET c == _read_u16(op.payload, 36).val
        IN IF Len(op.payload) >= 38 + 30 * c
           THEN /\ op.res.kind = "return"
                /\ FromBlocks(op.res.payload.measurements, 38, c)
                /\ Len(op.res.payload.name) = Len(op.payload) - (38 + 30 * c)
           ELSE op.res.kind = "raise"

\* C26: a binary record parser that returns a record has resolved the code
\* of every enum-valued field of the payload in the table of the field: a
\* code the table does not have, or a table the cache does not have, makes
\* the parse fail.
C26_Resolved ==
    \A kind \in {"QDDB", "QRSI", "SavedParse"} :
        (Parsing(kind) /\ op.res.kind = "return") =>
            \A e \in Enums : ~Unknown(e)

\* A QDDB payload of the declared length whose unit code the loaded table
\* does not have has failed with the KeyError of the lookup.
C26_Witness ==
    /\ Parsing("QDDB")
    /\ ~op.rebuild
    /\ Len(op.payload) = 34 + 30 * 2
    /\ _read_u16(op.payload, 32).val = 2
    /\ Unknown(<<UNIT, 6>>)
    /\ ~Unknown(<<PRIMFUNCTION, 0>>)
    /\ op.res.kind = "raise"
    /\ op.res.exc = "KeyError"

\* C27: QDDA on a well-formed response that declares r readings, each a
\* group of nine fields, returns exactly r Readings, the i-th made of the
\* i-th group, for every r >= 0.
C27_Groups ==
    \A r \in 0..MaxReadings :
        (Parsing("QDDA") /\ op.payload = DisplayTextOf(r)) =>
            /\ op.res.kind = "return"
            /\ Len(op.res.payload.readings) = r
            /\ \A i \in 1..r :
                  /\ op.res.payload.readings[i].id = Group(i)[1]
                  /\ op.res.payload.readings[i].decimal_places = i

\* C29: once QSLS has given its four counts, QSMR(idx) with idx below 0 or
\* above the number of saved measurements minus one fails with a ValueError
\* and has sent QSLS only; any other idx is sent as "QSMR idx".
C29_Validates ==
    [][(/\ op.kind = "QSMR" /\ op.phase = "QSLS"
        /\ op.stage = "busy" /\ pc[1] = "done"
        /\ QSLSReply(result[1]).kind = "return"
        /\ op' # op)
       => LET last == DictGet(QSLSReply(result[1]).payload,
                              StrKey(num_measurement)) - 1
          IN IF op.num < 0 \/ op.num > last
             THEN /\ op'.stage = "failed"
                  /\ op'.res.exc = "ValueError"
                  /\ Len(op'.asked) = 1
             ELSE /\ op'.stage = "busy"
                  /\ Len(op'.asked) = 2
                  /\ cmd'[1] = SavedCommand(op.num)]_vars

\* C30: the setter of custom_decibel_meter_reference sends
\* "MP CUSDBM, <val>" for every val from 1 to 1999, both included, and
\* raises ValueError without a command for every other val.
C30_Inclusive ==
    op.kind = "custom_decibel_meter_reference" =>
        IF 1 <= op.num /\ op.num <= 1999
        THEN /\ ~(op.stage = "failed" /\ log[1] = <<>>)
             /\ pc[1] = "enter" =>
                   cmd[1] = Str(Txt(<<"M", "P", " ", "C", "U", "S", "D", "B",
                                      "M", ",", " ">>) \o str(op.num))
        ELSE /\ op.stage = "failed"
             /\ op.res.exc = "ValueError"
             /\ log[1] = <<>>

=============================================================================
